---------------------------- MODULE Spec2Model ----------------------------
(***************************************************************************)
(* A model of the transfer execution engine of remote-signed-s3:           *)
(*   - Runner.run / Runner.runOnce   (src/src/runner.js, src/lib/runner.js) *)
(*   - Client.runUpload              (src/lib/client.js)                    *)
(*   - Client.runDownload            (src/lib/client.js)                    *)
(* The Runner of src/src/runner.js is the Runner of src/lib/runner.js plus  *)
(* redirect following; with followRedirect unset the two coincide.          *)
(***************************************************************************)
EXTENDS Integers, Sequences, FiniteSets, TLC

\* ------------------------------------------------------------- bounds ----
\* Largest maxRetries a modelled Runner is constructed with (besides the default).
MaxRetriesOpt == 3
\* The server stops answering with a followable redirect after this many hops.
MaxServerRedirects == 2
\* Largest maxRedirects option a caller passes to Runner.run.
MaxRedirectsOpt == 1
\* Longest transfer file (in bytes); a file has at most this many parts.
MaxFileLen == 3
\* Largest maxRetries of the Runner of a Client running an upload.
MaxRetriesUpload == 2
\* Largest maxRetries of the Runner of a Client running a download.
MaxRetriesDownload == 2
\* Largest byte value of a response body.
MaxByte == 2
\* Longest transfer file the Controller is asked about, in blocks of 2.5 MiB.
MaxBlocks == 5
\* Longest parts list the Controller is given, beside the lists of 10000 and
\* of 10001 parts.
MaxPartsLen == 2
\* Most chunks written to a DigestStream, and the longest of them (in bytes).
MaxChunks == 2
MaxChunkLen == 2
MaxOtherCalls == 2
\* Largest size of a file that is prepared part by part with small part sizes,
\* and of a file that changes while it is prepared.
MaxPrepFileSize == 4

\* -------------------------------------------------- program constants ----
DefaultMaxRetries == 5
DefaultMaxRedirects == 10
DefaultRetryDelayFactor == 100
DefaultRetryDelayJitter == 0

\* JavaScript's undefined: an option not passed, a header not present, the
\* value of a function that falls off its end.
Undefined == "undefined"
\* undefined where a Run Result is expected, and the test for a Run Result.
NoResult == [undefined |-> TRUE]
IsResult(r) == "statusCode" \in DOMAIN r
IsError(r) == "error" \in DOMAIN r

VARIABLES
  maxRetries,       \* this.maxRetries of the Runner instance
  retryDelayFactor, \* this.retryDelayFactor, in milliseconds
  retryDelayJitter, \* this.retryDelayJitter, in hundredths
  rpc,              \* where the Runner.run call is: idle, inflight, sleeping, resolved, rejected
  req,              \* opts.req of the current hop: [url, method, headers]
  body,             \* opts.body: the shape of the request body
  streamingOutput,  \* opts.streamingOutput
  followRedirect,   \* followRedirect, after the raw stream override
  maxRedirects,     \* maxRedirects, after defaulting
  currentRedirect,  \* currentRedirect of the current hop
  current,          \* the attempt counter of the current hop
  result,           \* what run settled with (a Run Result, Undefined, or an error)
  calls,            \* number of runOnce invocations of this logical request
  first,            \* the first non-5xx Run Result of this logical request and the
                    \* number of the runOnce invocation that got it, else Undefined
  last,             \* the Run Result of the latest attempt, else Undefined
  sleeps,           \* the arguments of the sleepFor calls of the current hop
  delays,           \* the delays of the timers sleepFor set in the current hop
  nsleeps,          \* number of sleepFor calls of this logical request
  factoryCalls,     \* number of times a body factory was invoked
  sending,          \* the bytes of the request body of the latest attempt
  opts,             \* followRedirect and maxRedirects as the top-level caller passed them
  file,             \* the bytes of the transfer file on disk
  caller,           \* who awaits the run call: "none" (a direct call), "upload", "download"
  \* ---- Client.runUpload
  upc,              \* where the runUpload call is: idle, running, resolved, rejected
  request,          \* the list of requests, after the single request is wrapped
  parts,            \* the list of parts, after the single part is built
  n,                \* the loop index of runUpload (0-based)
  etags,            \* etags
  responses,        \* responses
  uerr,             \* the error runUpload rejected with
  startLog,         \* the indices of the parts Runner.run was called for, in order
  uploaded,         \* the request bodies of the parts answered below 300, in order
  \* ---- Client.runDownload
  dpc,              \* where the runDownload call is: idle, awaiting, piping, ended,
                    \* finished, stopped
  dsettled,         \* the promise runDownload returned: pending, resolved, rejected
  derr,             \* the error it rejected with
  wire,             \* the bytes of the response body not yet read
  preDecompressionDigest,   \* the DigestStream before the decompressor
  postDecompressionDigest,  \* the DigestStream after the decompressor
  zbuf,             \* the input the gunzip stream has taken in
  sink,             \* the bytes written to the output stream
  \* ---- Client (constructor) and Client.prepareUpload
  client,           \* the Client: [state, partsize, multisize]
  fstat,            \* what fs.stat reports for the file now: [size, mtime, ino],
                    \* and data, which stands for the bytes in it
  zstat,            \* the same for the output file of the compression
  compressionInfo,  \* what __compressFile resolved with
  ppc,              \* where the prepareUpload call is: idle, compressing,
                    \* compressed, multi, single, singleEnd, resolved, rejected,
                    \* uncaught, unhandled
  popts,            \* the options it was called with
  partsize,         \* partsize of __prepareMultipartUpload
  filestats,        \* the stat taken before the digest pass
  size,             \* the number of bytes hashed so far
  part,             \* the loop counter of __prepareMultipartUpload
  pparts,           \* its parts array
  presult,          \* the descriptor prepareUpload resolved with, or its error
  prepared,         \* the descriptor of the first of two calls of prepareUpload
  descriptor,       \* the multipart descriptor of the transfer the Controller is asked about
  cpc,              \* the Controller: "idle", "generated" (requests returned), "threw",
                    \* "completed" (the body of the completion is built)
  cparts,           \* opts.parts of the call of generateMultipartRequest
  requests,         \* what generateMultipartRequest returned
  requestBody,      \* the document __generateCompleteUploadBody built: its Part nodes
  \* ---- a DigestStream on its own
  ds,               \* the DigestStream
  dsin,             \* the chunks still to be written to it
  dsout,            \* the chunks it has pushed downstream
  \* ---- a second Runner.run call on the same Runner
  other             \* its position, body, attempt counter, runOnce calls and result,
                    \* and the number of such calls made so far

runnerVars == <<maxRetries, retryDelayFactor, retryDelayJitter, rpc, req, body, streamingOutput, followRedirect,
                maxRedirects, currentRedirect, current, result, calls, first,
                last, sleeps, delays, nsleeps, factoryCalls, sending, opts, file, caller>>

uploadVars == <<upc, request, parts, n, etags, responses, uerr, startLog, uploaded>>

downloadVars == <<dpc, dsettled, derr, wire, preDecompressionDigest,
                  postDecompressionDigest, zbuf, sink>>

prepareVars == <<client, fstat, zstat, compressionInfo, ppc, popts, partsize,
                 filestats, size, part, pparts, presult, prepared>>

controllerVars == <<descriptor, cpc, cparts, requests, requestBody>>

digestVars == <<ds, dsin, dsout>>

concurrentVars == <<other>>

vars == <<runnerVars, uploadVars, downloadVars, prepareVars, controllerVars, digestVars, concurrentVars>>

\* ------------------------------------------------- Interchange format ----
httpMethods == {"GET", "get", "HEAD", "head", "PUT", "put", "POST", "post",
                "PATCH", "patch", "DELETE", "delete", "OPTIONS", "options",
                "TRACE", "trace", "CONNECT", "connect"}

\* A url is modelled as <<scheme, rest>>; /^https?:/ looks at the scheme only.
UrlMatches(url) == url[1] \in {"http", "https"}

\* InterchangeFormat.validate: TRUE when it returns, FALSE when it throws.
validate(r) ==
  /\ "url" \in DOMAIN r /\ UrlMatches(r.url)
  /\ "method" \in DOMAIN r /\ r.method \in httpMethods
  /\ "headers" \in DOMAIN r

toUpperCase(m) ==
  CASE m \in {"GET", "get"} -> "GET"
    [] m \in {"HEAD", "head"} -> "HEAD"
    [] m \in {"PUT", "put"} -> "PUT"
    [] m \in {"POST", "post"} -> "POST"
    [] m \in {"PATCH", "patch"} -> "PATCH"
    [] m \in {"DELETE", "delete"} -> "DELETE"
    [] m \in {"OPTIONS", "options"} -> "OPTIONS"
    [] m \in {"TRACE", "trace"} -> "TRACE"
    [] m \in {"CONNECT", "connect"} -> "CONNECT"
    [] OTHER -> m

\* ---------------------------------------------------------- the Runner ----
\* The shapes of opts.body.  "none" is an absent body, "empty" the empty string,
\* "object" a value of no accepted type.
\* A body is [shape, start, size]; start and size are the variables a factory
\* function closes over (the byte range it opens), 0 for the other shapes.
BodyShapes == {"none", "empty", "string", "buffer", "stream", "factory", "object"}
Body(shape) == [shape |-> shape, start |-> 0, size |-> 0]

\* JavaScript truthiness of a body: undefined and '' are falsy.
Truthy(b) == b.shape \notin {"none", "empty"}

\* body instanceof stream.Readable, or has a pipe method.
IsRawStream(b) == b.shape = "stream"

\* fs.createReadStream(f, {start, end}): the bytes at the 0-based offsets
\* start..end (inclusive) of f, cut at the end of the file.
createReadStream(f, start, end) ==
  LET stop == IF end + 1 < Len(f) THEN end + 1 ELSE Len(f)
  IN IF stop > start THEN [i \in 1..(stop - start) |-> f[start + i]] ELSE <<>>

\* The body factory runUpload builds for a part: function body() {...}.
bodyOffByOne(b) == createReadStream(file, b.start, b.start + b.size)
bodyFactory(b) == createReadStream(file, b.start, b.start + b.size - 1)

runOnceThrowsAsWritten(r, b) ==
  \/ ~validate(r)
  \/ /\ Truthy(b)
     /\ \/ r.method \in {"GET", "HEAD"}
        \/ b.shape = "object"

\* The synchronous part of runOnce: TRUE when it throws.
runOnceThrows(r, b) ==
  \/ ~validate(r)
  \/ /\ Truthy(b)
     /\ \/ toUpperCase(r.method) \in {"GET", "HEAD"}
        \/ b.shape = "object"

\* Whether a response carries header k with a truthy (non-empty) value.
HasHeader(h, k) == k \in DOMAIN h /\ h[k] # <<>>

Is5xx(r) == r.statusCode >= 500

\* The retry test of the loop of run.
RetryableNoLastCheck(r, c) == r.statusCode >= 500
RetryableFrom400(r, c) == r.statusCode >= 400 /\ c # maxRetries - 1
Retryable(r, c) == r.statusCode >= 500 /\ c # maxRetries - 1

\* The redirect test of run: the switch on the status code and the tests in it.
FollowsAnyMethod(r, rq, fr, cr, mr) ==
  /\ fr
  /\ r.statusCode \in {301, 302, 303}
  /\ HasHeader(r.headers, "location")
  /\ cr < mr
Follows(r, rq, fr, cr, mr) ==
  /\ fr
  /\ r.statusCode \in {301, 302, 303}
  /\ rq.method \in {"GET", "HEAD"}
  /\ HasHeader(r.headers, "location")
  /\ cr < mr

\* The head of the for loop with attempt counter c: the loop test and, when it
\* passes, the call of runOnce up to the point where the request is sent.
\* nc and f are the numbers of runOnce and factory invocations made so far.
Iterate(r, b, c, nc, f) ==
  /\ current' = c
  /\ IF c < maxRetries
       THEN /\ calls' = nc + 1
            /\ IF b.shape = "factory" /\ validate(r)
                  /\ toUpperCase(r.method) \notin {"GET", "HEAD"}
                 THEN factoryCalls' = f + 1 /\ sending' = bodyFactory(b)
                 ELSE factoryCalls' = f /\ sending' = <<>>
            /\ IF runOnceThrows(r, b)
                 THEN rpc' = "rejected" /\ result' = [error |-> "runOnce threw"]
                 ELSE rpc' = "inflight" /\ result' = NoResult
       ELSE /\ calls' = nc
            /\ factoryCalls' = f
            /\ sending' = sending
            /\ rpc' = "resolved"
            /\ result' = NoResult

\* The attempt counter a run call starts with.
FirstAttemptNoCap(b) == 0
FirstAttemptCapsFactory(b) ==
  IF IsRawStream(b) \/ b.shape = "factory" THEN maxRetries - 1 ELSE 0
FirstAttemptKeepsCounter(b) == IF IsRawStream(b) THEN maxRetries - 1 ELSE current
FirstAttempt(b) == IF IsRawStream(b) THEN maxRetries - 1 ELSE 0

\* The start of one run call (a top-level call, or the call for a redirect hop):
\* the defaults, the raw stream override and the first pass through the loop head.
RunBegin(r, b, so, fr, cr, mr, nc, f) ==
  /\ req' = r
  /\ body' = b
  /\ streamingOutput' = so
  /\ followRedirect' = IF IsRawStream(b) THEN FALSE ELSE fr
  /\ currentRedirect' = cr
  /\ maxRedirects' = IF mr = 0 THEN DefaultMaxRedirects ELSE mr
  /\ sleeps' = <<>>
  /\ delays' = <<>>
  /\ Iterate(r, b, FirstAttempt(b), nc, f)

\* A top-level call of Runner.run: the observers of the logical request restart.
RunCall(r, b, so, fr, mr) ==
  /\ first' = [n |-> 0, r |-> NoResult]
  /\ last' = NoResult
  /\ nsleeps' = 0
  /\ opts' = [followRedirect |-> fr, maxRedirects |-> mr]
  /\ RunBegin(r, b, so, fr, 0, mr, 0, 0)

\* What the server may answer.  A response with a Location header is offered
\* only while fewer than MaxServerRedirects hops were followed.
Statuses == {200, 301, 302, 303, 304, 307, 404, 500, 503}
Locations == {<<"http", "b">>, <<"https", "c">>}

RunnerResponses ==
  {[statusCode |-> s, headers |-> [date |-> "d"]] : s \in Statuses}
  \cup
  {[statusCode |-> s, headers |-> [date |-> "d", location |-> l]] :
      s \in {301, 302, 303, 307}, l \in IF currentRedirect < MaxServerRedirects
                                          THEN Locations ELSE {}}

\* ETag header values: strings are sequences of characters.
EtagValues == {<<>>, <<" ">>, <<"a">>, <<" ", "a", " ">>, <<"a", " ", "b">>}

UploadResponses ==
  {[statusCode |-> s, headers |-> [date |-> "d"]] : s \in {200, 300, 404, 500}}
  \cup
  {[statusCode |-> 200, headers |-> [date |-> "d", etag |-> e]] : e \in EtagValues}

\* ---------------------------------------------------- Client.runDownload ----
\* Bytes are 1..MaxByte.  crypto's SHA-256 is modelled without collisions: the
\* state of a hash is the number whose digits (base MaxByte + 1) are a leading
\* 1 and the bytes it has been updated with.
Bytes == 1..MaxByte
createHash == 1
update(h, chunk) == h * (MaxByte + 1) + chunk

\* digest('hex'): the hexadecimal digits of the hash, as a string.
HexDigits == <<"0", "1", "2", "3", "4", "5", "6", "7", "8", "9",
               "a", "b", "c", "d", "e", "f">>
RECURSIVE hex(_)
hex(h) == IF h < 16 THEN <<HexDigits[h + 1]>>
          ELSE Append(hex(h \div 16), HexDigits[(h % 16) + 1])

\* The SHA-256 (hex) of a whole sequence of bytes.
RECURSIVE HashOf(_, _)
HashOf(h, bytes) == IF bytes = <<>> THEN h ELSE HashOf(update(h, Head(bytes)), Tail(bytes))
sha256(bytes) == hex(HashOf(createHash, bytes))

\* JavaScript's NaN, the value of parseInt for a string without leading digits
\* and of a size read before the stream has flushed.
NaN == -1

\* DigestStream: _hash, _size, and after _flush hash and size.
DigestStream == [hash |-> createHash, size |-> 0, flushed |-> FALSE]
transform(d, chunk) == [d EXCEPT !.hash = update(d.hash, chunk), !.size = d.size + 1]
flush(d) == [d EXCEPT !.flushed = TRUE]
hashOfDigest(d) == IF d.flushed THEN hex(d.hash) ELSE <<>>
sizeOfDigest(d) == IF d.flushed THEN d.size ELSE NaN
RECURSIVE transformAll(_, _)
transformAll(d, bytes) ==
  IF bytes = <<>> THEN d ELSE transformAll(transform(d, Head(bytes)), Tail(bytes))

\* zlib's gunzip, modelled by a run-length code: the compressed form of a file
\* is a sequence of pairs <<count, byte>>.  A compressed stream that ends inside
\* a pair is corrupt.
gunzipOk(z) == Len(z) % 2 = 0
RECURSIVE gunzip(_)
gunzip(z) ==
  IF Len(z) < 2 THEN <<>>
  ELSE [i \in 1..z[1] |-> z[2]] \o gunzip(SubSeq(z, 3, Len(z)))

\* parseInt(str, 10) of a string of characters: the number its leading digits
\* spell, NaN when it starts with no digit.  parseInt never throws.
Digits == <<"0", "1", "2", "3", "4", "5", "6", "7", "8", "9">>
IsDigit(c) == \E d \in 1..10 : Digits[d] = c
DigitValue(c) == (CHOOSE d \in 1..10 : Digits[d] = c) - 1
RECURSIVE parseDigits(_, _)
parseDigits(acc, str) ==
  IF str = <<>> \/ ~IsDigit(Head(str)) THEN acc
  ELSE parseDigits(acc * 10 + DigitValue(Head(str)), Tail(str))
parseInt(str) ==
  IF str = <<>> \/ ~IsDigit(Head(str)) THEN NaN ELSE parseDigits(0, str)

\* a !== b for numbers, one of which may be NaN.
NotSame(a, b) == a = NaN \/ b = NaN \/ a # b

\* result.headers[k], with the empty string for undefined (both are falsy).
header(r, k) == IF k \in DOMAIN r.headers THEN r.headers[k] ELSE <<>>

\* A sequence of the messages whose condition holds, in order.
RECURSIVE Collect(_)
Collect(pairs) ==
  IF pairs = <<>> THEN <<>>
  ELSE (IF Head(pairs)[1] THEN <<Head(pairs)[2]>> ELSE <<>>) \o Collect(Tail(pairs))

\* headerErrors of runDownload.  The three parseInt calls are wrapped in
\* try/catch, but parseInt never throws: their messages are never pushed.
headerErrors(r) ==
  LET contentEncoding == header(r, "content-encoding") IN
  Collect(<<
    <<contentEncoding # <<>> /\ contentEncoding # <<"g", "z", "i", "p">>
        /\ contentEncoding # <<"i", "d", "e", "n", "t", "i", "t", "y">>,
      "Content-Encoding is specified with invalid value">>,
    <<header(r, "content-length") = <<>>, "Content-Length is mandatory but absent">>,
    <<header(r, "x-amz-meta-transfer-sha256") = <<>>,
      "Transfer-Sha256 is mandatory but absent">>,
    <<header(r, "x-amz-meta-content-sha256") = <<>>,
      "Content-Sha256 is mandatory but absent">>,
    <<header(r, "x-amz-meta-transfer-length") = <<>>,
      "Transfer-Size is mandatory but absent">>,
    <<header(r, "x-amz-meta-content-length") = <<>>,
      "Content-Size is mandatory but absent">> >>)

\* bodyErrors of the 'finish' handler of runDownload.
bodyErrorsNoContentLength(r, pre, post) ==
  Collect(<<
    <<hashOfDigest(pre) # header(r, "x-amz-meta-transfer-sha256"), "Transfer Sha256 mismatch">>,
    <<hashOfDigest(post) # header(r, "x-amz-meta-content-sha256"), "Content Sha256 mismatch">>,
    <<NotSame(sizeOfDigest(pre), parseInt(header(r, "x-amz-meta-transfer-length"))),
      "Transfer Size mismatch">>,
    <<NotSame(sizeOfDigest(post), parseInt(header(r, "x-amz-meta-content-length"))),
      "Content Size mismatch">> >>)
bodyErrors(r, pre, post) ==
  Collect(<<
    <<hashOfDigest(pre) # header(r, "x-amz-meta-transfer-sha256"), "Transfer Sha256 mismatch">>,
    <<hashOfDigest(post) # header(r, "x-amz-meta-content-sha256"), "Content Sha256 mismatch">>,
    <<NotSame(sizeOfDigest(pre), parseInt(header(r, "x-amz-meta-transfer-length"))),
      "Transfer Size mismatch">>,
    <<NotSame(sizeOfDigest(post), parseInt(header(r, "x-amz-meta-content-length"))),
      "Content Size mismatch">>,
    <<NotSame(sizeOfDigest(pre), parseInt(header(r, "content-length"))),
      "Content-Length header and Transfer-Size do not match">> >>)

\* Whether the decompressor chosen for the response is zlib's gunzip.
usesGunzip(r) == header(r, "content-encoding") = <<"g", "z", "i", "p">>

\* What the server may answer to a download: a bare 5xx, or a 200 or a 403 with
\* a body and any choice of the metadata headers.
WireBodies == {<<1>>, <<1, 1>>, <<2, 1>>}
Optional(name, values) == {<<>>} \cup {<<name, v>> : v \in values}
RECURSIVE HeadersOf(_)
HeadersOf(pairs) ==
  IF pairs = <<>> THEN [date |-> "d"]
  ELSE IF Head(pairs) = <<>> THEN HeadersOf(Tail(pairs))
  ELSE (Head(pairs)[1] :> Head(pairs)[2]) @@ HeadersOf(Tail(pairs))

DownloadResponses ==
  {[statusCode |-> 500, headers |-> [date |-> "d"], wire |-> <<>>]}
  \cup
  {[statusCode |-> s, headers |-> HeadersOf(<<ce, cl, ts, cs, tl, sl>>), wire |-> w] :
     s \in {200, 403}, w \in WireBodies,
     ce \in Optional("content-encoding",
                     {<<"g", "z", "i", "p">>, <<"i", "d", "e", "n", "t", "i", "t", "y">>,
                      <<"b", "r">>}),
     cl \in Optional("content-length", {<<"2">>, <<"x">>}),
     ts \in Optional("x-amz-meta-transfer-sha256", {sha256(<<1, 1>>), sha256(<<2, 1>>)}),
     cs \in Optional("x-amz-meta-content-sha256", {sha256(<<1>>), sha256(<<1, 1>>)}),
     tl \in Optional("x-amz-meta-transfer-length", {<<"1">>, <<"2">>, <<"2", "x">>}),
     sl \in Optional("x-amz-meta-content-length", {<<"1">>, <<"2">>, <<"x">>})}

\* runDownload({request, output}) up to its await of Runner.run.
RunDownload ==
  /\ caller = "download"
  /\ dpc = "idle" /\ rpc = "idle"
  /\ \E scheme \in {"https", "ftp"}, output \in {"string", "function", "object"} :
       LET rq == [url |-> <<scheme, "k">>, method |-> "GET", headers |-> "h"] IN
       IF ~validate(rq) \/ output = "object"
         THEN /\ dpc' = "stopped"
              /\ dsettled' = "rejected"
              /\ derr' = [error |-> IF ~validate(rq) THEN "ValidationError"
                                    ELSE "Output is not a supported format"]
              /\ UNCHANGED <<rpc, req, body, streamingOutput, followRedirect, maxRedirects,
                             currentRedirect, current, result, calls, first, last,
                             sleeps, delays, nsleeps, factoryCalls, sending, opts>>
         ELSE /\ dpc' = "awaiting"
              /\ UNCHANGED <<dsettled, derr>>
              /\ RunCall(rq, Body("none"), TRUE, FALSE, 0)
  /\ UNCHANGED <<wire, preDecompressionDigest, postDecompressionDigest, zbuf, sink>>
  /\ UNCHANGED <<maxRetries, retryDelayFactor, retryDelayJitter, caller, file>>
  /\ UNCHANGED <<uploadVars, prepareVars, controllerVars, digestVars, concurrentVars>>

\* Runner.run has settled: the headers are read and checked, and the response
\* is piped towards the output.  The executor is an async function: when the
\* await throws, or result is undefined, nobody settles the promise.
DownloadResume ==
  /\ caller = "download"
  /\ dpc = "awaiting" /\ rpc \in {"resolved", "rejected"}
  /\ rpc' = "idle"
  /\ IF rpc = "rejected" \/ ~IsResult(result)
       THEN /\ dpc' = "stopped"
            /\ UNCHANGED <<dsettled, derr, wire>>
       ELSE IF headerErrors(result) # <<>>
         THEN /\ dpc' = "stopped"
              /\ dsettled' = "rejected"
              /\ derr' = [error |-> "Errors in the header values",
                          errors |-> headerErrors(result)]
              /\ wire' = wire
         ELSE /\ dpc' = "piping"
              /\ wire' = result.bodyStream
              /\ UNCHANGED <<dsettled, derr>>
  /\ UNCHANGED <<preDecompressionDigest, postDecompressionDigest, zbuf, sink>>
  /\ UNCHANGED <<maxRetries, retryDelayFactor, retryDelayJitter, caller, file, req, body, streamingOutput, followRedirect,
                 maxRedirects, currentRedirect, current, result, calls, first, last,
                 sleeps, delays, nsleeps, factoryCalls, sending, opts>>
  /\ UNCHANGED <<uploadVars, prepareVars, controllerVars, digestVars, concurrentVars>>

\* One chunk (a byte) of the response goes down the pipes.
DownloadPipe ==
  /\ caller = "download"
  /\ dpc = "piping" /\ wire # <<>>
  /\ wire' = Tail(wire)
  /\ preDecompressionDigest' = transform(preDecompressionDigest, Head(wire))
  /\ IF usesGunzip(result)
       THEN /\ zbuf' = Append(zbuf, Head(wire))
            /\ UNCHANGED <<postDecompressionDigest, sink>>
       ELSE /\ postDecompressionDigest' = transform(postDecompressionDigest, Head(wire))
            /\ sink' = Append(sink, Head(wire))
            /\ zbuf' = zbuf
  /\ UNCHANGED <<dpc, dsettled, derr>>
  /\ UNCHANGED <<runnerVars, uploadVars, prepareVars, controllerVars, digestVars, concurrentVars>>

\* The response ends: the streams flush one after the other.  A corrupt gzip
\* stream makes the decompressor emit 'error', which rejects.
DownloadEnd ==
  /\ caller = "download"
  /\ dpc = "piping" /\ wire = <<>>
  /\ preDecompressionDigest' = flush(preDecompressionDigest)
  /\ IF usesGunzip(result) /\ ~gunzipOk(zbuf)
       THEN /\ dpc' = "stopped"
            /\ dsettled' = "rejected"
            /\ derr' = [error |-> "unexpected end of file"]
            /\ UNCHANGED <<postDecompressionDigest, sink>>
       ELSE LET out == IF usesGunzip(result) THEN gunzip(zbuf) ELSE <<>> IN
            /\ dpc' = "ended"
            /\ postDecompressionDigest' = flush(transformAll(postDecompressionDigest, out))
            /\ sink' = sink \o out
            /\ UNCHANGED <<dsettled, derr>>
  /\ UNCHANGED <<wire, zbuf>>
  /\ UNCHANGED <<runnerVars, uploadVars, prepareVars, controllerVars, digestVars, concurrentVars>>

\* The response stream fails while it is piped: result.bodyStream emits 'error'.
DownloadStreamError ==
  /\ caller = "download"
  /\ dpc = "piping"
  /\ dpc' = "stopped"
  /\ dsettled' = "rejected"
  /\ derr' = [error |-> "transport"]
  /\ UNCHANGED <<wire, preDecompressionDigest, postDecompressionDigest, zbuf, sink>>
  /\ UNCHANGED <<runnerVars, uploadVars, prepareVars, controllerVars, digestVars, concurrentVars>>

\* The output stream emits 'finish': the five checks, then resolve or reject.
DownloadFinish ==
  /\ caller = "download"
  /\ dpc = "ended"
  /\ dpc' = "finished"
  /\ LET errs == bodyErrors(result, preDecompressionDigest, postDecompressionDigest) IN
     IF errs # <<>>
       THEN /\ dsettled' = "rejected"
            /\ derr' = [error |-> "Errors in the body", errors |-> errs]
       ELSE /\ dsettled' = "resolved"
            /\ derr' = derr
  /\ UNCHANGED <<wire, preDecompressionDigest, postDecompressionDigest, zbuf, sink>>
  /\ UNCHANGED <<runnerVars, uploadVars, prepareVars, controllerVars, digestVars, concurrentVars>>

ServerResponses ==
  CASE caller = "none" -> RunnerResponses
    [] caller = "upload" -> UploadResponses
    [] caller = "download" -> DownloadResponses

\* The Run Result runOnce resolves with for response rsp: inMemoryResponse gives
\* {body, ...}, streamingResponse {bodyStream, ...}.  The server echoes in the
\* payload the number of the runOnce invocation and the path of the url, unless
\* the response names its body (wire).
RunResultBuffered(rsp, payload) ==
  [body |-> payload, headers |-> rsp.headers, statusCode |-> rsp.statusCode]
RunResult(rsp, payload) ==
  IF streamingOutput
    THEN [bodyStream |-> payload, headers |-> rsp.headers, statusCode |-> rsp.statusCode]
    ELSE [body |-> payload, headers |-> rsp.headers, statusCode |-> rsp.statusCode]

\* What the response carries, whichever way it was handed over.
payloadOf(r) == IF "body" \in DOMAIN r THEN r.body ELSE r.bodyStream

\* What an observer of runOnce records when it resolves with r.
Observe(r) ==
  /\ last' = r
  /\ first' = IF first.n = 0 /\ ~Is5xx(r) THEN [n |-> calls, r |-> r] ELSE first

\* Math.pow(2, e) for an attempt counter e.
RECURSIVE pow(_, _)
pow(b, e) == IF e <= 0 THEN 1 ELSE b * pow(b, e - 1)

\* Math.random(), in hundredths: a number from 0 up to, not including, 1.
Randoms == {0, 99}

\* The delay sleepFor(a) hands to setTimeout when Math.random() gives random:
\* delay * (random * 2 * rf + 1 - rf), with rf and random in hundredths.
delayLinear(a, random) == (a + 1) * retryDelayFactor
delayOf(a, random) ==
  LET delay == pow(2, a) * retryDelayFactor
      rf == retryDelayJitter
  IN (delay * (random * 2 * rf + 10000 - 100 * rf)) \div 10000

\* The body of the loop of run, once runOnce has resolved with r.
AfterAttempt(r) ==
  /\ IF Retryable(r, current)
       THEN \* await sleepFor(current); continue
            /\ rpc' = "sleeping"
            /\ sleeps' = Append(sleeps, current)
            /\ \E random \in Randoms : delays' = Append(delays, delayOf(current, random))
            /\ nsleeps' = nsleeps + 1
            /\ result' = NoResult
            /\ UNCHANGED <<req, body, streamingOutput, followRedirect, maxRedirects,
                           currentRedirect, current, calls, factoryCalls, sending>>
       ELSE /\ rpc' = "resolved"
            /\ result' = r
            /\ UNCHANGED <<sleeps, delays, nsleeps, req, body, streamingOutput, followRedirect,
                           maxRedirects, currentRedirect, current, calls, factoryCalls,
                           sending>>

\* ---- actions of the Runner

\* A caller invokes runner.run(opts) directly, with a request of one of the
\* urls and methods, a body of any shape, and one of the options.
run(urls, methods, outputs, follows, redirects) ==
  /\ caller = "none"
  /\ rpc = "idle"
  /\ \E url \in urls,
        m \in methods,
        sh \in BodyShapes,
        so \in outputs,
        fr \in follows,
        mr \in redirects :
       RunCall([url |-> url, method |-> m, headers |-> "h"], Body(sh), so, fr, mr)
  /\ UNCHANGED <<maxRetries, retryDelayFactor, retryDelayJitter, caller, file>>
  /\ UNCHANGED <<uploadVars, downloadVars, prepareVars, controllerVars, digestVars, concurrentVars>>

Run == run({<<"http", "a">>, <<"ftp", "a">>}, {"GET", "get", "HEAD", "PUT"},
           BOOLEAN, BOOLEAN, 0..MaxRedirectsOpt)

\* The response to the request in flight arrives and runOnce resolves.
Response ==
  /\ rpc = "inflight"
  /\ \E rsp \in ServerResponses :
       LET r == RunResult(rsp, IF "wire" \in DOMAIN rsp THEN rsp.wire
                               ELSE <<calls, req.url[2]>>) IN
       /\ Observe(r)
       /\ IF ~Retryable(r, current)
            /\ Follows(r, req, followRedirect, currentRedirect, maxRedirects)
         THEN \* return await this.run({req: {url: location, ...}, ...})
              /\ nsleeps' = nsleeps
              /\ RunBegin([url |-> r.headers["location"],
                           method |-> req.method, headers |-> req.headers],
                          body, streamingOutput, followRedirect,
                          currentRedirect + 1, maxRedirects, calls, factoryCalls)
         ELSE AfterAttempt(r)
  /\ UNCHANGED <<maxRetries, retryDelayFactor, retryDelayJitter, caller, file, opts>>
  /\ UNCHANGED <<uploadVars, downloadVars, prepareVars, controllerVars, digestVars, concurrentVars>>

\* streamingInput of runOnce: the request is written by streamingRequest (a
\* factory function or a raw stream), otherwise by inMemoryRequest.
streamingInput(b) == b.shape \in {"factory", "stream"}

\* What becomes of the runOnce call when the request in flight fails, in phase
\* "request" (before the 'response' event) or "response" (the server hangs up
\* while inMemoryResponse collects the body).  Only streamingRequest listens to
\* the request's 'error' event, and its reject comes too late once the promise
\* was resolved with the promise of the response handler.  An 'error' event
\* without a listener is thrown out of the emitter: an uncaught exception.
onRequestError(b, phase) ==
  IF streamingInput(b)
    THEN (IF phase = "request" THEN "rejected" ELSE "hung")
    ELSE "uncaught"

\* The phases in which the attempt in flight can fail: with streamingOutput
\* runOnce resolves as soon as the response starts.
ErrorPhases == IF streamingOutput THEN {"request"} ELSE {"request", "response"}

\* A Runner that caught the error of runOnce and slept before another attempt.
TransportErrorRetried ==
  /\ rpc = "inflight"
  /\ \E phase \in ErrorPhases :
       /\ rpc' = IF onRequestError(body, phase) = "rejected" /\ current < maxRetries - 1
                   THEN "sleeping" ELSE onRequestError(body, phase)
       /\ result' = [error |-> "transport", phase |-> phase]
  /\ UNCHANGED <<maxRetries, retryDelayFactor, retryDelayJitter, caller, req, body, streamingOutput, followRedirect,
                 maxRedirects, currentRedirect, current, calls, first, last,
                 sleeps, delays, nsleeps, factoryCalls, sending, opts, file>>
  /\ UNCHANGED <<uploadVars, downloadVars, prepareVars, controllerVars, digestVars, concurrentVars>>

\* The request in flight fails (socket error, server hangup).  When runOnce
\* rejects, so does the await in run.
TransportError ==
  /\ rpc = "inflight"
  /\ \E phase \in ErrorPhases :
       /\ rpc' = onRequestError(body, phase)
       /\ result' = [error |-> "transport", phase |-> phase]
  /\ UNCHANGED <<maxRetries, retryDelayFactor, retryDelayJitter, caller, req, body, streamingOutput, followRedirect,
                 maxRedirects, currentRedirect, current, calls, first, last,
                 sleeps, delays, nsleeps, factoryCalls, sending, opts, file>>
  /\ UNCHANGED <<uploadVars, downloadVars, prepareVars, controllerVars, digestVars, concurrentVars>>

\* The timer of sleepFor fires: current++ and the loop head again.
Wake ==
  /\ rpc = "sleeping"
  /\ Iterate(req, body, current + 1, calls, factoryCalls)
  /\ UNCHANGED <<maxRetries, retryDelayFactor, retryDelayJitter, caller, req, body, streamingOutput, followRedirect,
                 maxRedirects, currentRedirect, first, last, sleeps, delays, nsleeps, opts, file>>
  /\ UNCHANGED <<uploadVars, downloadVars, prepareVars, controllerVars, digestVars, concurrentVars>>

\* ------------------------------------------------------ Client.runUpload ----
\* String.prototype.trim on a sequence of characters.
Whitespace == {" ", "\t"}
RECURSIVE trimStart(_)
trimStart(str) ==
  IF str # <<>> /\ Head(str) \in Whitespace THEN trimStart(Tail(str)) ELSE str
RECURSIVE trimEnd(_)
trimEnd(str) ==
  IF str # <<>> /\ str[Len(str)] \in Whitespace
    THEN trimEnd(SubSeq(str, 1, Len(str) - 1)) ELSE str
trimStartOnly(str) == trimStart(str)
trim(str) == trimEnd(trimStart(str))

NOETAG == <<"N", "O", "E", "T", "A", "G">>

\* The etag runUpload records for a Run Result.
etagOf(r) ==
  LET etag == IF HasHeader(r.headers, "etag") THEN trim(r.headers["etag"]) ELSE <<>>
  IN IF etag # <<>> THEN etag ELSE NOETAG

\* The status test of runUpload: TRUE when the part failed.
PartFailedFrom400(r) == r.statusCode >= 400
PartFailed(r) == r.statusCode >= 300

\* The descriptors prepareUpload yields for the transfer file f: without parts
\* (single part), or with the parts of part size p.
ceilDiv(a, b) == (a + b - 1) \div b
PartsOf(f, p) ==
  [i \in 1..ceilDiv(Len(f), p) |->
     [start |-> (i - 1) * p,
      size |-> IF i * p <= Len(f) THEN p ELSE Len(f) - (i - 1) * p]]
Descriptors(f) ==
  {[transferSize |-> Len(f), multipart |-> FALSE, parts |-> <<>>]}
  \cup {[transferSize |-> Len(f), multipart |-> TRUE, parts |-> PartsOf(f, p)] :
          p \in 1..Len(f)}

\* The requests a caller passes: request i is signed for part i; a bad request
\* has a url that is no http(s) url.
SignedRequest(i, m, ok) ==
  [url |-> <<IF ok THEN "https" ELSE "ftp", i>>, method |-> m,
   headers |-> [partNumber |-> i]]
RequestLists(maxLen) ==
  {[i \in 1..c |-> SignedRequest(i, m, i \notin bad)] :
      c \in 1..maxLen, m \in {"PUT", "GET"}, bad \in SUBSET (1..maxLen)}

\* The validation loop of runUpload: every request of the list is validated.
FirstValid(rqs) == validate(rqs[1])
AllValid(rqs) == \A i \in 1..Len(rqs) : validate(rqs[i])

\* The error runUpload throws for a failed part.
PartError(rq, r) ==
  [error |-> "Failed to run a request", url |-> rq.url, method |-> rq.method,
   headers |-> rq.headers, body |-> r.body]

\* The head of the for loop of runUpload with index i over the lists rqs and ps:
\* either Runner.run is called for part i, or the loop ends and runUpload returns.
NextPartSameIndex(i) == i
NextPart(i) == i + 1

UploadLoop(i, rqs, ps) ==
  /\ n' = i
  /\ IF i < Len(rqs)
       THEN /\ upc' = "running"
            /\ startLog' = Append(startLog, i)
            /\ RunCall(rqs[i + 1],
                       [shape |-> "factory", start |-> ps[i + 1].start,
                        size |-> ps[i + 1].size],
                       FALSE, FALSE, 0)
       ELSE /\ upc' = "resolved"
            /\ startLog' = startLog
            /\ rpc' = "idle"
            /\ UNCHANGED <<req, body, streamingOutput, followRedirect, maxRedirects,
                           currentRedirect, current, result, calls, first, last,
                           sleeps, delays, nsleeps, factoryCalls, sending, opts>>

\* runUpload(request, upload), up to its first await of Runner.run, for any of
\* the descriptors uploads and any of the request lists requestLists.
runUpload(uploads, requestLists) ==
  /\ caller = "upload"
  /\ upc = "idle" /\ rpc = "idle"
  /\ \E upload \in uploads, rqs \in requestLists :
       LET ps == IF ~upload.multipart
                   THEN <<[start |-> 0, size |-> upload.transferSize]>>
                   ELSE upload.parts
       IN /\ request' = rqs
          /\ parts' = ps
          /\ etags' = <<>>
          /\ responses' = <<>>
          /\ uploaded' = <<>>
          /\ IF ~AllValid(rqs)
               THEN /\ upc' = "rejected"
                    /\ uerr' = [error |-> "ValidationError"]
                    /\ UNCHANGED <<n, startLog>>
                    /\ UNCHANGED <<rpc, req, body, streamingOutput, followRedirect,
                                   maxRedirects, currentRedirect, current, result, calls,
                                   first, last, sleeps, delays, nsleeps, factoryCalls, sending,
                                   opts>>
               ELSE IF Len(rqs) # Len(ps)
                 THEN /\ upc' = "rejected"
                      /\ uerr' = [error |-> "Number of requests does not match number of upload parts"]
                      /\ UNCHANGED <<n, startLog>>
                      /\ UNCHANGED <<rpc, req, body, streamingOutput, followRedirect,
                                     maxRedirects, currentRedirect, current, result,
                                     calls, first, last, sleeps, delays, nsleeps, factoryCalls,
                                     sending, opts>>
                 ELSE /\ uerr' = NoResult
                      /\ UploadLoop(0, rqs, ps)
  /\ UNCHANGED <<maxRetries, retryDelayFactor, retryDelayJitter, caller, file>>
  /\ UNCHANGED <<downloadVars, prepareVars, controllerVars, digestVars, concurrentVars>>

\* A caller runs an upload with requests of its own.
RunUpload == runUpload(Descriptors(file), RequestLists(Len(file) + 1))

\* Runner.run for part n has settled: the rest of the loop body, and the loop head.
UploadResume ==
  /\ caller = "upload"
  /\ upc = "running" /\ rpc \in {"resolved", "rejected"}
  /\ IF rpc = "rejected" \/ ~IsResult(result) \/ PartFailed(result)
       THEN /\ upc' = "rejected"
            /\ uerr' = IF rpc = "rejected" THEN result
                       ELSE IF ~IsResult(result) THEN [error |-> "TypeError"]
                       ELSE PartError(request[n + 1], result)
            /\ rpc' = "idle"
            /\ UNCHANGED <<n, etags, responses, startLog, uploaded>>
            /\ UNCHANGED <<req, body, streamingOutput, followRedirect, maxRedirects,
                           currentRedirect, current, result, calls, first, last,
                           sleeps, delays, nsleeps, factoryCalls, sending, opts>>
       ELSE /\ etags' = Append(etags, etagOf(result))
            /\ responses' = Append(responses, result)
            /\ uploaded' = Append(uploaded, sending)
            /\ uerr' = uerr
            /\ UploadLoop(NextPart(n), request, parts)
  /\ UNCHANGED <<maxRetries, retryDelayFactor, retryDelayJitter, caller, file, request, parts>>
  /\ UNCHANGED <<downloadVars, prepareVars, controllerVars, digestVars, concurrentVars>>

\* ------------------------------- Client and Client.prepareUpload ----
\* Sizes are counted in units of 1 KiB (5 GiB in bytes is no 32-bit integer).
KB == 1
MB == KB * 1024
GB == MB * 1024
MAX_S3_CHUNKS == 10000

\* The constructor's schema: partsize min(5*MB) max(5*GB) default(25*MB),
\* multisize default(100*MB).
Given(o, f) == f \in DOMAIN o
ClientOptsOk(o) == Given(o, "partsize") => (o.partsize >= 5 * MB /\ o.partsize <= 5 * GB)
ClientPartsize(o) == IF Given(o, "partsize") THEN o.partsize ELSE 25 * MB
ClientMultisize(o) == IF Given(o, "multisize") THEN o.multisize ELSE 100 * MB

\* The options schema of prepareUpload: partsize max(5 * GB) default(this.partsize),
\* and .without('forceSP', 'forceMP'): forceMP may not be given beside forceSP.
PrepareOptsOk(o) ==
  /\ Given(o, "partsize") => o.partsize <= 5 * GB
  /\ ~(Given(o, "forceSP") /\ Given(o, "forceMP"))
OptPartsize(o) == IF Given(o, "partsize") THEN o.partsize ELSE client.partsize

\* __useMulti(size, forceMP, forceSP), with FORCE_MP and FORCE_SP unset in the
\* environment: "throw" when it throws.
Flag(o, f) == Given(o, f) /\ o[f]
useMultiAbove(sz, o) ==
  IF sz = 0 THEN "throw"
  ELSE IF Flag(o, "forceMP") /\ Flag(o, "forceSP") THEN "throw"
  ELSE IF Flag(o, "forceMP") THEN "multi"
  ELSE IF Flag(o, "forceSP") THEN "single"
  ELSE IF sz > client.multisize THEN "multi"
  ELSE "single"
useMulti(sz, o) ==
  IF sz = 0 THEN "throw"
  ELSE IF Flag(o, "forceMP") /\ Flag(o, "forceSP") THEN "throw"
  ELSE IF Flag(o, "forceMP") THEN "multi"
  ELSE IF Flag(o, "forceSP") THEN "single"
  ELSE IF sz >= client.multisize THEN "multi"
  ELSE "single"

\* a / b < 2 in JavaScript numbers, for b >= 0: a division by 0 gives
\* Infinity, -Infinity or NaN.
ratioBelowTwo(a, b) == IF b = 0 THEN a < 0 ELSE a < 2 * b

\* Math.ceil(a / b) for a >= 0 and b # 0.
mathCeil(a, b) == IF b > 0 THEN (a + b - 1) \div b ELSE 0 - (a \div (0 - b))

\* The bytes fs.createReadStream(filename, {start, end}) delivers from a file
\* of the size st.size: those at the offsets start..end that exist.
bytesRead(st, start, end) ==
  LET stop == IF end + 1 < st.size THEN end + 1 ELSE st.size
  IN IF stop > start THEN stop - start ELSE 0

\* The SHA-256 of len bytes from offset start on of the file as it is in st.
digestOf(st, start, len) == [data |-> st.data, start |-> start, len |-> len]

\* The output file of zlib's gzip for the file st: other bytes, which depend on
\* the bytes of st only, and another number of them.
gzipSize(len) == len \div 2 + 1
gzippedAnew(st) ==
  [size |-> gzipSize(st.size), mtime |-> 0, ino |-> st.ino + 1,
   data |-> <<"gzip", IF zstat = NoResult THEN st.data[2] ELSE st.data[2] + 1>>]
gzipped(st) ==
  [size |-> gzipSize(st.size), mtime |-> 0, ino |-> st.ino + 1,
   data |-> <<"gzip", st.data[2]>>]

\* The entry parts.push adds for the bytes read of a part.
partAtItsEnd(st, start, len) ==
  [sha256 |-> digestOf(st, start, len), size |-> len, start |-> start + len]
partOf(st, start, len) ==
  [sha256 |-> digestOf(st, start, len), size |-> len, start |-> start]

\* The array parts is kept as its runs: a run [first |-> e, n |-> k] stands for
\* the k entries e, e moved by its size, e moved by twice its size, ...
moved(e, k) ==
  [sha256 |-> [e.sha256 EXCEPT !.start = @ + k * e.size],
   size |-> e.size,
   start |-> e.start + k * e.size]
push(runs, e) ==
  IF runs # <<>> /\ e = moved(runs[Len(runs)].first, runs[Len(runs)].n)
    THEN [runs EXCEPT ![Len(runs)].n = @ + 1]
    ELSE Append(runs, [first |-> e, n |-> 1])
RECURSIVE length(_)
length(runs) == IF runs = <<>> THEN 0 ELSE Head(runs).n + length(Tail(runs))
RECURSIVE partAt(_, _)
partAt(runs, i) ==
  IF i <= Head(runs).n THEN moved(Head(runs).first, i - 1)
  ELSE partAt(Tail(runs), i - Head(runs).n)

\* partcount of __prepareMultipartUpload.
partcount == mathCeil(filestats.size, partsize)

\* The files prepared: small ones, and one that needs more than MAX_S3_CHUNKS
\* parts of the smallest part size.  The part sizes a caller passes: 0, small
\* ones, a negative one, one above 5 GiB.
FileSizes == (0..MaxPrepFileSize) \cup {MAX_S3_CHUNKS + 1}
PartsizeOpts == {0, 1, 3, 0 - 1, 5 * GB + 1}

\* An options object of the given fields.
RECURSIVE OptionsOf(_)
OptionsOf(pairs) ==
  IF pairs = <<>> THEN [filename |-> "f"]
  ELSE IF Head(pairs) = <<>> THEN OptionsOf(Tail(pairs))
  ELSE (Head(pairs)[1] :> Head(pairs)[2]) @@ OptionsOf(Tail(pairs))

\* The options Clients are made with: none, a small multisize, or a partsize
\* just below the lower limit, at it, and just above the upper limit.
ClientOpts ==
  {OptionsOf(<<>>), OptionsOf(<<<<"multisize", 2>>>>)}
  \cup {OptionsOf(<<<<"partsize", p>>>>) : p \in {5 * MB - 1, 5 * MB, 5 * GB + 1}}

\* new Client(opts): the constructor throws when the schema rejects opts.
NewClient ==
  /\ caller = "prepare"
  /\ client.state = "none"
  /\ \E o \in ClientOpts :
          client' = IF ClientOptsOk(o)
                      THEN [state |-> "constructed", partsize |-> ClientPartsize(o),
                            multisize |-> ClientMultisize(o)]
                      ELSE [state |-> "rejected", opts |-> o]
  /\ UNCHANGED <<fstat, zstat, compressionInfo, ppc, popts, partsize, filestats, size,
                 part, pparts, presult>>
  /\ UNCHANGED <<runnerVars, uploadVars, downloadVars, prepared, controllerVars, digestVars, concurrentVars>>

\* _filename of prepareUpload and its stat: the file that is transferred is
\* the output of the compression when there was one.
transferFile == IF compressionInfo = NoResult THEN popts.filename ELSE compressionInfo.filename
transferStat == IF compressionInfo = NoResult THEN fstat ELSE zstat
compression(o) == IF Given(o, "compression") THEN o.compression ELSE "identity"

\* prepareUpload from its stat of _filename to the first await of the digest
\* pass that __useMulti chooses.
ChooseMode(o) ==
  LET how == useMulti(transferStat.size, o)
  IN IF how = "throw"
       THEN /\ ppc' = "rejected"
            /\ presult' = [error |-> "You must provide a size"]
            /\ UNCHANGED <<partsize, filestats>>
     ELSE IF how = "single"
       THEN /\ ppc' = "single"
            /\ filestats' = transferStat
            /\ UNCHANGED <<partsize, presult>>
     ELSE LET psz == IF OptPartsize(o) = 0 THEN client.partsize ELSE OptPartsize(o)
          IN /\ partsize' = psz
             /\ filestats' = transferStat
             /\ IF ratioBelowTwo(psz, 0)
                  THEN /\ ppc' = "rejected"
                       /\ presult' = [error |-> "Multipart upload must have at least 2 parts"]
                  ELSE /\ ppc' = "multi"
                       /\ presult' = presult

\* prepareUpload(opts): the check of the options, and without compression the
\* choice of the digest pass.
PrepareUpload ==
  /\ caller = "prepare"
  /\ client.state = "constructed" /\ ppc = "idle"
  /\ \E ps \in Optional("partsize", PartsizeOpts), mp \in Optional("forceMP", BOOLEAN),
        sp \in Optional("forceSP", BOOLEAN),
        cp \in Optional("compression", {"identity", "gzip"}) :
       LET o == OptionsOf(<<ps, mp, sp, cp>>)
       IN /\ popts' = o
          /\ IF ~PrepareOptsOk(o)
               THEN /\ ppc' = "rejected"
                    /\ presult' = [error |-> "ValidationError"]
                    /\ UNCHANGED <<partsize, filestats>>
             ELSE IF compression(o) # "identity"
               THEN /\ ppc' = "compressing"
                    /\ UNCHANGED <<partsize, filestats, presult>>
             ELSE ChooseMode(o)
  /\ size' = 0
  /\ part' = 0
  /\ pparts' = <<>>
  /\ UNCHANGED <<client, fstat, zstat, compressionInfo>>
  /\ UNCHANGED <<runnerVars, uploadVars, downloadVars, prepared, controllerVars, digestVars, concurrentVars>>

\* __compressFile: the file goes through a digest, gzip and a second digest
\* into the output file.
CompressFile ==
  /\ caller = "prepare"
  /\ ppc = "compressing"
  /\ zstat' = gzipped(fstat)
  /\ compressionInfo' = [sha256 |-> digestOf(fstat, 0, fstat.size),
                         size |-> fstat.size,
                         transferSha256 |-> digestOf(gzipped(fstat), 0, gzipped(fstat).size),
                         transferSize |-> gzipped(fstat).size,
                         contentEncoding |-> "gzip",
                         filename |-> "z"]
  /\ ppc' = "compressed"
  /\ UNCHANGED <<client, fstat, popts, partsize, filestats, size, part, pparts, presult>>
  /\ UNCHANGED <<runnerVars, uploadVars, downloadVars, prepared, controllerVars, digestVars, concurrentVars>>

\* prepareUpload after its await of __compressFile.
PrepareCompressed ==
  /\ caller = "prepare"
  /\ ppc = "compressed"
  /\ ChooseMode(popts)
  /\ UNCHANGED <<client, fstat, zstat, compressionInfo, popts, size, part, pparts>>
  /\ UNCHANGED <<runnerVars, uploadVars, downloadVars, prepared, controllerVars, digestVars, concurrentVars>>

withTransferNotAssigned(r) ==
  IF compressionInfo # NoResult
    THEN r @@ compressionInfo
    ELSE ("transferSha256" :> r.sha256) @@ ("transferSize" :> r.size) @@ r
withTransferOfNothing(r) ==
  IF compressionInfo # NoResult
    THEN compressionInfo @@ r
    ELSE ("transferSha256" :> digestOf(transferStat, 0, 0)) @@ ("transferSize" :> 0) @@ r

\* The end of prepareUpload: Object.assign(result, compressionInfo), or the
\* transfer fields as copies of sha256 and size.
withTransfer(r) ==
  IF compressionInfo # NoResult
    THEN compressionInfo @@ r
    ELSE ("transferSha256" :> r.sha256) @@ ("transferSize" :> r.size) @@ r

\* One pass through the loop of __prepareMultipartUpload: the part is read and
\* hashed.  A throw in the 'end' handler of the stream is an uncaught
\* exception, and the promise the loop awaits is never settled.
PreparePart ==
  /\ caller = "prepare"
  /\ ppc = "multi" /\ part < partcount
  /\ LET start == part * partsize
         end == start + partsize - 1
         currentPartsize == bytesRead(transferStat, start, end)
     IN /\ size' = size + currentPartsize
        /\ IF \/ part < partcount - 1 /\ partsize # currentPartsize
              \/ part = partcount - 1 /\ currentPartsize > partsize
             THEN /\ ppc' = "uncaught"
                  /\ UNCHANGED <<part, pparts>>
             ELSE /\ pparts' = push(pparts, partOf(transferStat, start, currentPartsize))
                  /\ part' = part + 1
                  /\ ppc' = ppc
  /\ UNCHANGED <<client, fstat, zstat, compressionInfo, popts, partsize, filestats, presult>>
  /\ UNCHANGED <<runnerVars, uploadVars, downloadVars, prepared, controllerVars, digestVars, concurrentVars>>

\* The end of __prepareMultipartUpload and of prepareUpload after it: the
\* second stat and the checks.  reject is not defined in this function: calling
\* it throws a ReferenceError, which rejects the promise all the same.
PrepareMultiFinish ==
  /\ caller = "prepare"
  /\ ppc = "multi" /\ part >= partcount
  /\ IF size # filestats.size
       THEN /\ ppc' = "rejected"
            /\ presult' = [error |-> "File has a different number of bytes than was hashed"]
     ELSE IF [transferStat EXCEPT !.data = filestats.data] # filestats
       THEN /\ ppc' = "rejected"
            /\ presult' = [error |-> "ReferenceError: reject is not defined"]
     ELSE /\ ppc' = "resolved"
          /\ presult' = withTransfer([filename |-> transferFile,
                                      sha256 |-> digestOf(transferStat, 0, size),
                                      size |-> size,
                                      parts |-> pparts])
  /\ UNCHANGED <<client, fstat, zstat, compressionInfo, popts, partsize, filestats, size,
                 part, pparts>>
  /\ UNCHANGED <<runnerVars, uploadVars, downloadVars, prepared, controllerVars, digestVars, concurrentVars>>

\* __prepareSinglepartUpload: the stream over the whole file has ended.
PrepareSinglePass ==
  /\ caller = "prepare"
  /\ ppc = "single"
  /\ size' = bytesRead(transferStat, 0, transferStat.size - 1)
  /\ pparts' = push(<<>>, partOf(transferStat, 0, transferStat.size))
  /\ ppc' = "singleEnd"
  /\ UNCHANGED <<client, fstat, zstat, compressionInfo, popts, partsize, filestats, part,
                 presult>>
  /\ UNCHANGED <<runnerVars, uploadVars, downloadVars, prepared, controllerVars, digestVars, concurrentVars>>

\* The 'end' handler of __prepareSinglepartUpload after its await of fs.stat,
\* and prepareUpload after it.  The handler is an async function: its throw
\* is an unhandled rejection and settles nothing.
PrepareSingleFinish ==
  /\ caller = "prepare"
  /\ ppc = "singleEnd"
  /\ IF size # filestats.size
       THEN /\ ppc' = "unhandled"
            /\ presult' = presult
     ELSE IF [transferStat EXCEPT !.data = filestats.data] # filestats
       THEN /\ ppc' = "rejected"
            /\ presult' = [error |-> IF transferStat.size # filestats.size
                                       THEN "File changed size during preperation"
                                     ELSE IF transferStat.mtime # filestats.mtime
                                       THEN "File was modified during preperation"
                                     ELSE "File has changed inodes"]
     ELSE /\ ppc' = "resolved"
          /\ presult' = withTransfer([filename |-> transferFile,
                                      sha256 |-> partAt(pparts, 1).sha256,
                                      size |-> size])
  /\ UNCHANGED <<client, fstat, zstat, compressionInfo, popts, partsize, filestats, size,
                 part, pparts>>
  /\ UNCHANGED <<runnerVars, uploadVars, downloadVars, prepared, controllerVars, digestVars, concurrentVars>>

\* Somebody else changes the file while it is being digested.
changed(st, sz, ino) ==
  [size |-> sz, mtime |-> st.mtime + 1, ino |-> ino, data |-> <<st.data[1], st.data[2] + 1>>]
FileChange ==
  /\ caller = "prepare"
  /\ ppc \in {"multi", "single", "singleEnd"}
  /\ transferStat = filestats /\ filestats.size <= MaxPrepFileSize
  /\ \E sz \in 0..MaxPrepFileSize, ino \in {transferStat.ino, transferStat.ino + 1} :
       IF compressionInfo = NoResult
         THEN fstat' = changed(fstat, sz, ino) /\ zstat' = zstat
         ELSE zstat' = changed(zstat, sz, ino) /\ fstat' = fstat
  /\ UNCHANGED <<client, compressionInfo, ppc, popts, partsize, filestats, size, part,
                 pparts, presult>>
  /\ UNCHANGED <<runnerVars, uploadVars, downloadVars, prepared, controllerVars, digestVars, concurrentVars>>

\* The caller prepares the same file once more, with the same options.
PrepareAgain ==
  /\ caller = "prepare"
  /\ ppc = "resolved" /\ prepared = NoResult
  /\ fstat.size <= MaxPrepFileSize
  /\ prepared' = presult
  /\ IF compression(popts) # "identity"
       THEN /\ ppc' = "compressing"
            /\ UNCHANGED <<partsize, filestats, presult>>
       ELSE ChooseMode(popts)
  /\ size' = 0
  /\ part' = 0
  /\ pparts' = <<>>
  /\ UNCHANGED <<client, fstat, zstat, compressionInfo, popts>>
  /\ UNCHANGED <<runnerVars, uploadVars, downloadVars, controllerVars, digestVars, concurrentVars>>

\* An object of the given fields; <<>> is the object with no field.
RECURSIVE ObjectOf(_)
ObjectOf(pairs) ==
  IF pairs = <<>> THEN <<>>
  ELSE IF Head(pairs) = <<>> THEN ObjectOf(Tail(pairs))
  ELSE LET rest == ObjectOf(Tail(pairs))
       IN IF DOMAIN rest = {} THEN Head(pairs)[1] :> Head(pairs)[2]
          ELSE (Head(pairs)[1] :> Head(pairs)[2]) @@ rest

\* The objects validate is called with: url, method and headers are there or
\* not; a url is a string, a method is a string, headers are an object, whose
\* values are strings or numbers.
JsString(v) == [typeof |-> "string", value |-> v]
JsNumber(v) == [typeof |-> "number", value |-> v]
ValidateInputs ==
  {ObjectOf(<<u, m, h>>) :
     u \in Optional("url", {<<"http", "a">>, <<"https", "a">>, <<"ftp", "a">>, <<"httpx", "a">>}),
     m \in Optional("method", httpMethods \cup {"Get", "FOO"}),
     h \in Optional("headers", {<<>>, [a |-> JsString("x")],
                                [a |-> JsString("x"), b |-> JsNumber("1")]})}

\* InterchangeFormat.validate(obj): it returns obj or throws.
Validate ==
  /\ caller = "validate"
  /\ rpc = "idle"
  /\ \E obj \in ValidateInputs :
       /\ req' = obj
       /\ result' = IF validate(obj) THEN [returned |-> obj]
                                     ELSE [error |-> "ValidationError"]
  /\ rpc' = "validated"
  /\ UNCHANGED <<maxRetries, retryDelayFactor, retryDelayJitter, body, streamingOutput, followRedirect, maxRedirects,
                 currentRedirect, current, calls, first, last, sleeps, delays, nsleeps,
                 factoryCalls, sending, opts, file, caller>>
  /\ UNCHANGED <<uploadVars, downloadVars, prepareVars, controllerVars, digestVars, concurrentVars>>

RetriesOpts == (0..MaxRetriesOpt) \cup {DefaultMaxRetries}

\* A Runner made without retryDelayFactor and retryDelayJitter.
DefaultDelay ==
  /\ retryDelayFactor = DefaultRetryDelayFactor
  /\ retryDelayJitter = DefaultRetryDelayJitter

InitRunner ==
  /\ rpc = "idle"
  /\ req = [url |-> <<"http", "a">>, method |-> "GET", headers |-> "h"]
  /\ body = Body("none")
  /\ streamingOutput = FALSE
  /\ followRedirect = FALSE
  /\ maxRedirects = DefaultMaxRedirects
  /\ currentRedirect = 0
  /\ current = 0
  /\ result = NoResult
  /\ calls = 0
  /\ first = [n |-> 0, r |-> NoResult]
  /\ last = NoResult
  /\ sleeps = <<>>
  /\ delays = <<>>
  /\ nsleeps = 0
  /\ factoryCalls = 0
  /\ sending = <<>>
  /\ opts = [followRedirect |-> FALSE, maxRedirects |-> 0]

InitUpload ==
  /\ upc = "idle"
  /\ request = <<>>
  /\ parts = <<>>
  /\ n = 0
  /\ etags = <<>>
  /\ responses = <<>>
  /\ uerr = NoResult
  /\ startLog = <<>>
  /\ uploaded = <<>>

InitDownload ==
  /\ dpc = "idle"
  /\ dsettled = "pending"
  /\ derr = NoResult
  /\ wire = <<>>
  /\ preDecompressionDigest = DigestStream
  /\ postDecompressionDigest = DigestStream
  /\ zbuf = <<>>
  /\ sink = <<>>

\* No Client yet; the file is any of the files of the model.
InitPrepare ==
  /\ client = [state |-> "none"]
  /\ fstat \in {[size |-> sz, mtime |-> 0, ino |-> 1, data |-> <<"file", 0>>] : sz \in FileSizes}
  /\ zstat = NoResult
  /\ compressionInfo = NoResult
  /\ prepared = NoResult
  /\ ppc = "idle"
  /\ popts = NoResult
  /\ partsize = 0
  /\ filestats = NoResult
  /\ size = 0
  /\ part = 0
  /\ pparts = <<>>
  /\ presult = NoResult

\* No DigestStream is used on its own.
InitDigest ==
  /\ ds = DigestStream
  /\ dsin = <<>>
  /\ dsout = <<>>

\* No second call of run has been made.
NoCall == [pc |-> "idle", body |-> Body("none"), current |-> 0, calls |-> 0,
           statusCode |-> 0, made |-> 0]
InitConcurrent == other = NoCall

\* The Controller has been asked for nothing yet.
InitController ==
  /\ descriptor = NoResult
  /\ cpc = "idle"
  /\ cparts = <<>>
  /\ requests = <<>>
  /\ requestBody = <<>>

\* The runs of the other specifications prepare nothing.
NoPrepare ==
  /\ InitPrepare
  /\ fstat.size = 0

Init ==
  /\ InitRunner
  /\ InitUpload
  /\ InitDownload
  /\ NoPrepare
  /\ InitController
  /\ InitDigest
  /\ InitConcurrent
  /\ maxRetries \in RetriesOpts
  /\ DefaultDelay
  /\ caller = "none"
  /\ file = <<>>

Next == Run \/ Response \/ TransportError \/ Wake

Spec == Init /\ [][Next]_vars

\* Runners made with a retryDelayFactor and a retryDelayJitter (in hundredths)
\* of their own.
DelayFactors == {DefaultRetryDelayFactor, 250}
Jitters == {DefaultRetryDelayJitter, 50}

InitBackoffSpec ==
  /\ InitRunner
  /\ InitUpload
  /\ InitDownload
  /\ NoPrepare
  /\ InitController
  /\ InitDigest
  /\ InitConcurrent
  /\ maxRetries \in RetriesOpts
  /\ retryDelayFactor \in DelayFactors
  /\ retryDelayJitter \in Jitters
  /\ retryDelayJitter = DefaultRetryDelayJitter \/ retryDelayFactor = DefaultRetryDelayFactor
  /\ caller = "none"
  /\ file = <<>>

\* A caller invokes runner.run(opts) for a buffered response.
RunBuffered == run({<<"http", "a">>}, {"GET", "PUT"}, {FALSE}, BOOLEAN, {0})

NextBackoff == RunBuffered \/ Response \/ TransportError \/ Wake

SpecBackoff == InitBackoffSpec /\ [][NextBackoff]_vars

\* ---- two calls of run on one Runner
\* The second call runs the same code with a `current` of its own: `let current`
\* is a local of run, and run only reads this.maxRetries.  Its request is valid,
\* its body a string or a raw stream, and the server answers it 200 or 5xx.
OtherBodies == {Body("string"), Body("stream")}
OtherStatuses == {200, 500}

\* The head of the for loop in the second call o, with attempt counter c.
otherIterate(o, c) ==
  IF c < maxRetries
    THEN [o EXCEPT !.pc = "inflight", !.current = c, !.calls = o.calls + 1]
    ELSE [o EXCEPT !.pc = "resolved", !.current = c]

\* A caller invokes runner.run(opts) while the first call may be in progress.
OtherRun ==
  /\ caller = "none"
  /\ other.pc = "idle"
  /\ other.made < MaxOtherCalls
  /\ \E b \in OtherBodies :
       other' = otherIterate([NoCall EXCEPT !.body = b, !.made = other.made + 1],
                             FirstAttempt(b))
  /\ UNCHANGED <<runnerVars, uploadVars, downloadVars, prepareVars, controllerVars,
                 digestVars>>

\* runOnce of the second call resolves: sleep and retry, or return the result.
OtherResponse ==
  /\ other.pc = "inflight"
  /\ \E s \in OtherStatuses :
       IF Retryable([statusCode |-> s], other.current)
         THEN other' = [other EXCEPT !.pc = "sleeping"]
         ELSE other' = [other EXCEPT !.pc = "resolved", !.statusCode = s]
  /\ UNCHANGED <<runnerVars, uploadVars, downloadVars, prepareVars, controllerVars,
                 digestVars>>

\* The timer of the second call's sleepFor fires.
OtherWake ==
  /\ other.pc = "sleeping"
  /\ other' = otherIterate(other, other.current + 1)
  /\ UNCHANGED <<runnerVars, uploadVars, downloadVars, prepareVars, controllerVars,
                 digestVars>>

\* The caller has the second call's result and may call run again.
OtherReturn ==
  /\ other.pc = "resolved"
  /\ other' = [NoCall EXCEPT !.made = other.made]
  /\ UNCHANGED <<runnerVars, uploadVars, downloadVars, prepareVars, controllerVars,
                 digestVars>>

InitConcurrentSpec ==
  /\ InitRunner
  /\ InitUpload
  /\ InitDownload
  /\ NoPrepare
  /\ InitController
  /\ InitDigest
  /\ InitConcurrent
  /\ maxRetries \in 0..MaxRetriesOpt
  /\ DefaultDelay
  /\ caller = "none"
  /\ file = <<>>

\* The first call: a PUT of any body, buffered, without redirects.
RunPut == run({<<"http", "a">>}, {"PUT"}, {FALSE}, {FALSE}, {0})

NextConcurrent ==
  \/ RunPut \/ Response \/ TransportError \/ Wake
  \/ OtherRun \/ OtherResponse \/ OtherWake \/ OtherReturn

SpecConcurrent == InitConcurrentSpec /\ [][NextConcurrent]_vars

\* The transfer file: byte i of the file has the value i, so that a range read
\* at the wrong offset shows.
Files == {[i \in 1..len |-> i] : len \in 1..MaxFileLen}

InitUploadSpec ==
  /\ InitRunner
  /\ InitUpload
  /\ InitDownload
  /\ NoPrepare
  /\ InitController
  /\ InitDigest
  /\ InitConcurrent
  /\ maxRetries \in 0..MaxRetriesUpload
  /\ DefaultDelay
  /\ caller = "upload"
  /\ file \in Files

NextUpload == RunUpload \/ Response \/ TransportError \/ Wake \/ UploadResume

SpecUpload == InitUploadSpec /\ [][NextUpload]_vars

InitDownloadSpec ==
  /\ InitRunner
  /\ InitUpload
  /\ InitDownload
  /\ NoPrepare
  /\ InitController
  /\ InitDigest
  /\ InitConcurrent
  /\ maxRetries \in 0..MaxRetriesDownload
  /\ DefaultDelay
  /\ caller = "download"
  /\ file = <<>>

NextDownload ==
  \/ RunDownload \/ Response \/ TransportError \/ Wake
  \/ DownloadResume \/ DownloadPipe \/ DownloadEnd \/ DownloadStreamError
  \/ DownloadFinish

SpecDownload == InitDownloadSpec /\ [][NextDownload]_vars

InitPrepareSpec ==
  /\ InitRunner
  /\ InitUpload
  /\ InitDownload
  /\ InitPrepare
  /\ InitController
  /\ InitDigest
  /\ InitConcurrent
  /\ maxRetries = DefaultMaxRetries
  /\ DefaultDelay
  /\ caller = "prepare"
  /\ file = <<>>

NextPrepare ==
  \/ NewClient \/ PrepareUpload \/ CompressFile \/ PrepareCompressed
  \/ PrepareAgain \/ PreparePart \/ PrepareMultiFinish
  \/ PrepareSinglePass \/ PrepareSingleFinish \/ FileChange

SpecPrepare == InitPrepareSpec /\ [][NextPrepare]_vars

\* The event loop runs every callback that is due: a prepareUpload call that can
\* take a step takes one.
SpecPrepareLive == SpecPrepare /\ WF_vars(NextPrepare)

InitValidateSpec ==
  /\ InitRunner
  /\ InitUpload
  /\ InitDownload
  /\ NoPrepare
  /\ InitController
  /\ InitDigest
  /\ InitConcurrent
  /\ maxRetries = DefaultMaxRetries
  /\ DefaultDelay
  /\ caller = "validate"
  /\ file = <<>>

NextValidate == Validate

SpecValidate == InitValidateSpec /\ [][NextValidate]_vars

\* ------------------------------------------------------------ Controller ----
\* Number(x).toString() and `${num}`: the decimal digits of a number.
RECURSIVE toString(_)
toString(x) == IF x < 10 THEN <<Digits[x + 1]>>
               ELSE Append(toString(x \div 10), Digits[(x % 10) + 1])

\* In a transfer the Controller is asked about, one element of `file` stands
\* for a block of 2.5 MiB: a part of one block is smaller than 5 MiB, a part of
\* two blocks is not.
Block == (5 * MB) \div 2
BlockFiles == {[i \in 1..len |-> i] : len \in 1..MaxBlocks}

\* The parts of a descriptor as the caller hands them to the Controller:
\* {sha256, size, start}, in bytes.
\* digest('hex') of a SHA-256 has 64 hexadecimal digits: the digits of the
\* model's hash, with zeros in front.
digestHex(bytes) ==
  LET digits == sha256(bytes) IN [i \in 1..(64 - Len(digits)) |-> "0"] \o digits

\* The parts of a descriptor as the caller hands them to the Controller:
\* {sha256, size, start}.  sha256 is a string of characters, size is counted in
\* KiB and start in blocks (5 TiB in KiB is no 32-bit integer).
sha256Of(p) == digestHex(SubSeq(file, p.start + 1, p.start + p.size))
partsOf(d) ==
  [i \in 1..Len(d.parts) |->
     [sha256 |-> sha256Of(d.parts[i]), size |-> d.parts[i].size * Block,
      start |-> d.parts[i].start]]

\* schemas.sha256: a string of 64 hexadecimal digits that does not begin with
\* the digest of the empty string.
HexChars == {HexDigits[i] : i \in 1..16} \cup {"A", "B", "C", "D", "E", "F"}
emptySha256 == digestHex(<<>>)
sha256Ok(str) ==
  /\ Len(str) = 64
  /\ \A i \in 1..Len(str) : str[i] \in HexChars
  /\ SubSeq(str, 1, Len(emptySha256)) # emptySha256

\* 5 * GB and 5 * TB - 5 * GB of schemas.parts, in blocks.
FiveGBInBlocks == (5 * GB) \div Block
MaxStart == FiveGBInBlocks * 1024 - FiveGBInBlocks

\* schemas.parts: one to 10000 objects with the keys sha256, size and start,
\* none of them required.
partOkAnySha256(pt) ==
  /\ Given(pt, "size") => (pt.size >= 0 /\ pt.size <= 5 * GB)
  /\ Given(pt, "start") => (pt.start >= 0 /\ pt.start <= MaxStart)
partOk(pt) ==
  /\ Given(pt, "sha256") => sha256Ok(pt.sha256)
  /\ Given(pt, "size") => (pt.size >= 0 /\ pt.size <= 5 * GB)
  /\ Given(pt, "start") => (pt.start >= 0 /\ pt.start <= MaxStart)
partsOk(ps) == Len(ps) >= 1 /\ Len(ps) <= 10000 /\ \A i \in 1..Len(ps) : partOk(ps[i])

\* The test in the loop of generateMultipartRequest: part num of ps is too small.
tooSmall(ps, num) == ps[num].size < 5 * MB /\ num < Len(ps)

\* The query of the request for part num, and the request as __serializeRequest
\* returns it: the url is protocol, host and path, and the query.
queryFromZero(num, uploadId) ==
  <<"partNumber=">> \o toString(num - 1) \o <<"&uploadId=", uploadId>>
query(num, uploadId) ==
  <<"partNumber=">> \o toString(num) \o <<"&uploadId=", uploadId>>
partRequest(ps, num, uploadId) ==
  [url |-> <<"https", "//host/bucket/key", "?">> \o query(num, uploadId),
   method |-> "PUT",
   headers |-> ("x-amz-content-sha256" :> ps[num].sha256)
               @@ ("content-length" :> ps[num].size)]

\* Controller.generateMultipartRequest({bucket, key, uploadId, parts}) for the
\* parts ps: it throws when the schema refuses them or at the first part that
\* is too small, or returns the requests of the loop.
generateMultipartRequest(ps) ==
  /\ cpc = "idle"
  /\ cparts' = ps
  /\ IF ~partsOk(ps) \/ \E num \in 1..Len(ps) : tooSmall(ps, num)
       THEN /\ cpc' = "threw"
            /\ requests' = requests
       ELSE /\ cpc' = "generated"
            /\ requests' = [num \in 1..Len(ps) |-> partRequest(ps, num, "u")]
  /\ UNCHANGED <<descriptor, requestBody>>
  /\ UNCHANGED <<runnerVars, uploadVars, downloadVars, prepareVars, digestVars, concurrentVars>>

\* The caller asks for the requests of the parts of its descriptor.
GenerateMultipartRequest ==
  /\ caller = "upload"
  /\ generateMultipartRequest(partsOf(descriptor))

\* The caller runs the upload of the descriptor with the requests of the Controller.
RunGenerated ==
  /\ cpc = "generated"
  /\ runUpload({descriptor}, {requests})

\* The schema of __generateCompleteUploadBody: one to 10000 strings, none empty.
etagsOk(es) == Len(es) >= 1 /\ Len(es) <= 10000 /\ \A x \in 1..Len(es) : es[x] # <<>>

\* The document of __generateCompleteUploadBody: the Part nodes under
\* CompleteMultipartUpload, in document order.  x counts from 0 in the source
\* and from 1 here: etags[x] of the source is es[x + 1].
generateCompleteUploadBody(es) ==
  [x \in 1..Len(es) |-> [PartNumber |-> toString((x - 1) + 1), ETag |-> es[x]]]

\* The caller hands the etags of runUpload to __generateCompleteUploadBody.
GenerateCompleteUploadBody ==
  /\ caller = "upload"
  /\ cpc = "generated" /\ upc = "resolved"
  /\ IF etagsOk(etags)
       THEN /\ cpc' = "completed"
            /\ requestBody' = generateCompleteUploadBody(etags)
       ELSE /\ cpc' = "threw"
            /\ requestBody' = requestBody
  /\ UNCHANGED <<descriptor, cparts, requests>>
  /\ UNCHANGED <<runnerVars, uploadVars, downloadVars, prepareVars, digestVars, concurrentVars>>

InitMultipartSpec ==
  /\ InitRunner
  /\ InitUpload
  /\ InitDownload
  /\ NoPrepare
  /\ maxRetries \in 0..MaxRetriesUpload
  /\ DefaultDelay
  /\ caller = "upload"
  /\ file \in BlockFiles
  /\ descriptor \in {d \in Descriptors(file) : d.multipart}
  /\ InitDigest
  /\ InitConcurrent
  /\ cpc = "idle"
  /\ cparts = <<>>
  /\ requests = <<>>
  /\ requestBody = <<>>

NextMultipart ==
  \/ GenerateMultipartRequest
  \/ RunGenerated
  \/ Response
  \/ TransportError
  \/ Wake
  \/ UploadResume
  \/ GenerateCompleteUploadBody

SpecMultipart == InitMultipartSpec /\ [][NextMultipart]_vars

\* --------------------------------------------------------- DigestStream ----
\* The chunks written to a DigestStream: Buffers of 0 to MaxChunkLen bytes.
Chunks == UNION {[1..len -> Bytes] : len \in 0..MaxChunkLen}
ChunkLists == UNION {[1..c -> Chunks] : c \in 0..MaxChunks}

\* _transform(chunk, encoding, callback) for a Buffer: _hash.update(chunk) takes
\* in the bytes of the chunk one after the other, _size grows by chunk.length,
\* and callback(null, chunk, encoding) pushes the chunk.
transformCountsChunks(d, chunk) ==
  [d EXCEPT !.hash = HashOf(d.hash, chunk), !.size = d.size + 1]
transformBuffer(d, chunk) ==
  [d EXCEPT !.hash = HashOf(d.hash, chunk), !.size = d.size + Len(chunk)]

DigestTransform ==
  /\ caller = "digest"
  /\ dsin # <<>>
  /\ ds' = transformBuffer(ds, Head(dsin))
  /\ dsout' = Append(dsout, Head(dsin))
  /\ dsin' = Tail(dsin)
  /\ UNCHANGED <<runnerVars, uploadVars, downloadVars, prepareVars, controllerVars, concurrentVars>>

\* The source ends after the last chunk: _flush(callback).
DigestFlush ==
  /\ caller = "digest"
  /\ dsin = <<>> /\ ~ds.flushed
  /\ ds' = flush(ds)
  /\ UNCHANGED <<dsin, dsout>>
  /\ UNCHANGED <<runnerVars, uploadVars, downloadVars, prepareVars, controllerVars, concurrentVars>>

InitDigestSpec ==
  /\ InitRunner
  /\ InitUpload
  /\ InitDownload
  /\ NoPrepare
  /\ InitController
  /\ ds = DigestStream
  /\ dsin \in ChunkLists
  /\ dsout = <<>>
  /\ InitConcurrent
  /\ maxRetries = DefaultMaxRetries
  /\ DefaultDelay
  /\ caller = "digest"
  /\ file = <<>>

NextDigest == DigestTransform \/ DigestFlush

SpecDigest == InitDigestSpec /\ [][NextDigest]_vars

\* The parts a caller hands to generateMultipartRequest: sizes at and beside
\* the limits of the schema and of the loop; a digest, the digest of the empty
\* string, strings that are too short, too long or not hexadecimal; no start,
\* or starts at and beside the limits.  A part is unusual in one of the three.
goodSha256 == digestHex(<<1>>)
PartSizes == {0 - 1, 0, 5 * MB - 1, 5 * MB, 5 * GB, 5 * GB + 1}
Sha256s == {goodSha256, emptySha256, <<"a", "s", "k">>, [i \in 1..64 |-> "g"],
            goodSha256 \o <<"0">>}
PartStarts == {0 - 1, 0, MaxStart, MaxStart + 1}
PartInputs ==
  {[sha256 |-> goodSha256, size |-> sz] : sz \in PartSizes}
  \cup {[sha256 |-> h, size |-> 5 * MB] : h \in Sha256s}
  \cup {[sha256 |-> goodSha256, size |-> 5 * MB, start |-> st] : st \in PartStarts}
PartsLists ==
  UNION {[1..len -> PartInputs] : len \in 0..MaxPartsLen}
  \cup {[i \in 1..len |-> [sha256 |-> goodSha256, size |-> 5 * MB]] : len \in {10000, 10001}}

\* A caller asks the Controller for the requests of a parts list.
GenerateForParts ==
  /\ caller = "controller"
  /\ \E ps \in PartsLists : generateMultipartRequest(ps)

InitPartsSpec ==
  /\ InitRunner
  /\ InitUpload
  /\ InitDownload
  /\ NoPrepare
  /\ InitController
  /\ InitDigest
  /\ InitConcurrent
  /\ maxRetries = DefaultMaxRetries
  /\ DefaultDelay
  /\ caller = "controller"
  /\ file = <<>>

NextParts == GenerateForParts

SpecParts == InitPartsSpec /\ [][NextParts]_vars

\* The event loop runs every continuation that is ready, and a request in
\* flight ends with a response or with an error.
SpecDownloadLive == SpecDownload /\ WF_vars(NextDownload)

\* ================================================================ claims ====

\* A body that can be sent again: none, a string, a Buffer or a factory function.
Replayable(b) == b.shape \in {"none", "empty", "string", "buffer", "factory"}

\* A direct Runner.run call has received its first non-5xx response, at
\* attempt k+1 (all k attempts before it were answered with a 5xx status).
AnsweredNon5xx == caller = "none" /\ Replayable(body) /\ first.n # 0 /\ first.n <= maxRetries

\* The case in which run goes on after a non-5xx response: the caller asked for
\* followRedirect, and the response is a 301, 302 or 303 with a Location header
\* to a request whose method is GET or HEAD.
C1_IsFollowedRedirect ==
  /\ opts.followRedirect
  /\ first.r.statusCode \in {301, 302, 303}
  /\ "location" \in DOMAIN first.r.headers
  /\ req.method \in {"GET", "HEAD"}

\* C1 as stated: with a replayable body, when the first k attempts are answered
\* with a 5xx status and attempt k+1 with a non-5xx status (k < maxRetries), run
\* resolves with exactly that result and runOnce has been invoked exactly k+1 times.
C1_Original ==
  AnsweredNon5xx => /\ rpc = "resolved"
                    /\ result = first.r
                    /\ calls = first.n

\* C1 (amended): the same, for every non-5xx response that is not a redirect
\* run follows (followRedirect requested, status 301/302/303, a Location
\* header, method GET or HEAD).
C1_ResolvesWithFirstNon5xx ==
  (AnsweredNon5xx /\ ~C1_IsFollowedRedirect) =>
       /\ rpc = "resolved"
       /\ result = first.r
       /\ calls = first.n

\* k = 2: two 5xx answers, then a 200, returned after exactly three attempts.
C1_Witness ==
  /\ AnsweredNon5xx /\ ~C1_IsFollowedRedirect
  /\ body.shape = "factory"
  /\ first.n = 3 /\ calls = 3
  /\ rpc = "resolved" /\ result.statusCode = 200

\* Every attempt of a direct Runner.run call so far was answered with a 5xx status.
\* (the payload of a response starts with the number of the invocation it answers).
AllAnswered5xx ==
  /\ caller = "none" /\ rpc # "idle" /\ first.n = 0
  /\ calls > 0 => (IsResult(last) /\ payloadOf(last)[1] = calls)

\* C2 as stated: if every attempt is answered with a 5xx status, run invokes
\* runOnce exactly maxRetries times and then resolves with the result of the
\* last attempt, its 5xx status intact.
C2_Original ==
  /\ (AllAnswered5xx /\ rpc = "resolved") =>
        /\ calls = maxRetries
        /\ (calls > 0 => result = last /\ result.statusCode >= 500)
  /\ (AllAnswered5xx /\ calls = maxRetries) => rpc = "resolved"

\* C2 (amended): the same for a replayable body (a raw stream body is capped at
\* one attempt whatever maxRetries is).
C2_ExhaustedRetriesResolve ==
  /\ (AllAnswered5xx /\ Replayable(body) /\ rpc = "resolved") =>
        /\ calls = maxRetries
        /\ (calls > 0 => result = last /\ result.statusCode >= 500)
  /\ (AllAnswered5xx /\ Replayable(body) /\ calls = maxRetries) => rpc = "resolved"

\* Five 5xx answers to a Runner with the default maxRetries: resolved with the fifth.
C2_Witness ==
  /\ AllAnswered5xx /\ Replayable(body) /\ rpc = "resolved"
  /\ maxRetries = DefaultMaxRetries /\ calls = DefaultMaxRetries
  /\ result = last /\ result.statusCode = 503

\* C3: with a raw readable stream as the body, runOnce is invoked exactly once
\* whatever the response status, no backoff sleep occurs and no redirect is
\* followed, even if followRedirect was requested.
C3_RawStreamSingleAttempt ==
  (caller = "none" /\ body.shape = "stream") =>
     /\ calls = 1
     /\ nsleeps = 0 /\ rpc # "sleeping"
     /\ currentRedirect = 0 /\ ~followRedirect
     /\ (rpc = "resolved" => result = last /\ first.n \in {0, 1})

\* A raw stream answered with a 500 by a Runner allowing five attempts, with
\* followRedirect requested: resolved after the single attempt.
C3_Witness ==
  /\ caller = "none" /\ body.shape = "stream" /\ opts.followRedirect
  /\ maxRetries = DefaultMaxRetries
  /\ rpc = "resolved" /\ result.statusCode = 500 /\ calls = 1

\* ---- Client.runUpload

\* C4: runUpload runs the parts strictly in the order of the parts array, one at
\* a time: Runner.run is called for part n+1 only after the run for part n has
\* resolved with a status below 300, and the request in flight is always that
\* of the latest part started.
C4_PartsSequential ==
  caller = "upload" =>
    /\ startLog = [i \in 1..Len(startLog) |-> i - 1]
    /\ Len(startLog) <= Len(responses) + 1
    /\ \A i \in 1..Len(responses) :
         responses[i].statusCode < 300 /\ responses[i].body[2] = i
    /\ rpc \in {"inflight", "sleeping"} =>
         /\ upc = "running"
         /\ Len(responses) = Len(startLog) - 1
         /\ req = request[Len(startLog)]

\* The third part is being retried after the first two were answered below 300.
C4_Witness ==
  /\ caller = "upload" /\ Len(startLog) = 3 /\ Len(responses) = 2
  /\ rpc = "inflight" /\ calls = 2

\* Runner.run for part n has resolved with a status of 300 or more.
PartAnswered300Plus ==
  /\ caller = "upload" /\ upc # "idle" /\ rpc # "inflight" /\ rpc # "sleeping"
  /\ IsResult(result) /\ result.statusCode >= 300

\* C5: when Runner.run for parts[n] resolves with a status >= 300, runUpload
\* rejects with an error carrying that request's url, method and headers and
\* the response body, runs no request for a later part and returns no
\* {etags, responses}.
C5_FailedPartIsTerminal ==
  PartAnswered300Plus =>
    /\ upc \in {"running", "rejected"}
    /\ upc = "running" => rpc = "resolved"
    /\ startLog = [i \in 1..(n + 1) |-> i - 1]
    /\ upc = "rejected" =>
         /\ rpc = "idle"
         /\ uerr.url = request[n + 1].url
         /\ uerr.method = request[n + 1].method
         /\ uerr.headers = request[n + 1].headers
         /\ uerr.body = result.body /\ result.body[2] = n + 1

\* The second of three parts was answered with a 404: rejected, third part not run.
C5_Witness ==
  /\ PartAnswered300Plus /\ upc = "rejected" /\ Len(parts) = 3 /\ n = 1
  /\ result.statusCode = 404 /\ uerr.url = <<"https", 2>>

\* t is str with the whitespace at both ends removed.
IsTrimOf(t, str) ==
  \E i \in 1..(Len(str) + 1), j \in 0..Len(str) :
    /\ t = SubSeq(str, i, j)
    /\ \A k \in 1..(i - 1) : str[k] \in Whitespace
    /\ \A k \in (j + 1)..Len(str) : str[k] \in Whitespace
    /\ t = <<>> \/ (t[1] \notin Whitespace /\ t[Len(t)] \notin Whitespace)

\* The lengths and the origin of etags and responses on success.
C6_Aligned ==
  /\ Len(etags) = Len(parts) /\ Len(responses) = Len(parts)
  /\ \A i \in 1..Len(responses) : responses[i].body[2] = request[i].url[2]

\* C6 as stated: on success etags and responses have one entry per part, entry i
\* from the request of parts[i]; etags[i] is the trimmed ETag header, or
\* 'NOETAG' when the header is absent.
C6_Original ==
  (caller = "upload" /\ upc = "resolved") =>
    /\ C6_Aligned
    /\ \A i \in 1..Len(etags) :
         IF "etag" \in DOMAIN responses[i].headers
           THEN IsTrimOf(etags[i], responses[i].headers["etag"])
           ELSE etags[i] = NOETAG

\* C6 (amended): etags[i] is the trimmed ETag header, or 'NOETAG' when the
\* header is absent or blank (nothing is left of it after trimming).
C6_EtagsAndResponses ==
  (caller = "upload" /\ upc = "resolved") =>
    /\ C6_Aligned
    /\ \A i \in 1..Len(etags) :
         IF /\ "etag" \in DOMAIN responses[i].headers
            /\ ~IsTrimOf(<<>>, responses[i].headers["etag"])
           THEN IsTrimOf(etags[i], responses[i].headers["etag"])
           ELSE etags[i] = NOETAG

\* Three parts: a padded ETag, no ETag, an ETag with a space inside.
C6_Witness ==
  /\ caller = "upload" /\ upc = "resolved" /\ Len(parts) = 3
  /\ "etag" \in DOMAIN responses[1].headers
  /\ responses[1].headers["etag"] = <<" ", "a", " ">> /\ etags[1] = <<"a">>
  /\ "etag" \notin DOMAIN responses[2].headers /\ etags[2] = NOETAG
  /\ etags[3] = <<"a", " ", "b">>

\* What the Interchange format asks of the url of a request.
BadRequest(rq) == rq.url[1] \notin {"http", "https"}

\* C7: runUpload runs no HTTP request and rejects when any request of the list
\* fails validation (also one later than the first) or when the number of
\* requests differs from the number of parts.
C7_ValidationBeforeIO ==
  (/\ caller = "upload" /\ upc # "idle"
   /\ \/ \E i \in 1..Len(request) : BadRequest(request[i])
      \/ Len(request) # Len(parts)) =>
     /\ upc = "rejected"
     /\ startLog = <<>> /\ calls = 0 /\ rpc = "idle"

\* Three requests for three parts, only the third one bad: rejected, nothing sent.
C7_Witness ==
  /\ caller = "upload" /\ upc = "rejected" /\ Len(request) = 3 /\ Len(parts) = 3
  /\ ~BadRequest(request[1]) /\ ~BadRequest(request[2]) /\ BadRequest(request[3])
  /\ request[1].method = "PUT"
  /\ startLog = <<>>

RECURSIVE Concat(_)
Concat(seqs) == IF seqs = <<>> THEN <<>> ELSE Head(seqs) \o Concat(Tail(seqs))

\* C8: every attempt for part n sends exactly the bytes [start, start+size-1] of
\* the transfer file, and the bodies of the successful part requests, in part
\* order, make up the transfer file.
C8_ExactByteRanges ==
  caller = "upload" =>
    /\ rpc = "inflight" =>
         /\ Len(sending) = parts[n + 1].size
         /\ \A k \in 1..Len(sending) : sending[k] = file[parts[n + 1].start + k]
    /\ upc = "resolved" => Concat(uploaded) = file

\* A file of three bytes sent as the parts [0,1] and [2,2], the second one on a retry.
C8_Witness ==
  /\ caller = "upload" /\ upc = "resolved" /\ Len(file) = 3 /\ Len(parts) = 2
  /\ uploaded = <<<<1, 2>>, <<3>>>> /\ calls = 2

\* ------------------------------------------------------------ downloads ----
\* The bytes the server sent and the bytes they decode to.
Received == result.bodyStream
Decoded == IF usesGunzip(result) THEN gunzip(Received) ELSE Received

\* The checks that fail, judged on the whole response and the whole output.
C9_Failed ==
  {m \in {"Transfer Sha256 mismatch", "Content Sha256 mismatch", "Transfer Size mismatch",
          "Content Size mismatch", "Content-Length header and Transfer-Size do not match"} :
     \/ m = "Transfer Sha256 mismatch"
        /\ sha256(Received) # header(result, "x-amz-meta-transfer-sha256")
     \/ m = "Content Sha256 mismatch"
        /\ sha256(sink) # header(result, "x-amz-meta-content-sha256")
     \/ m = "Transfer Size mismatch"
        /\ NotSame(Len(Received), parseInt(header(result, "x-amz-meta-transfer-length")))
     \/ m = "Content Size mismatch"
        /\ NotSame(Len(sink), parseInt(header(result, "x-amz-meta-content-length")))
     \/ m = "Content-Length header and Transfer-Size do not match"
        /\ NotSame(Len(Received), parseInt(header(result, "content-length")))}

\* C9: runDownload resolves only after the output sink has finished (it holds
\* every decoded byte) and only if none of the five checks fails; when the sink
\* has finished and a check fails, it rejects with one error whose errors list
\* holds exactly the failed checks, each once.  The declared lengths are the
\* headers as parseInt reads them.
C9_ResolvesOnlyIfChecksPass ==
  caller = "download" =>
    /\ dsettled = "resolved" =>
         /\ dpc = "finished"
         /\ sink = Decoded
         /\ C9_Failed = {}
    /\ dpc = "finished" =>
         IF C9_Failed = {} THEN dsettled = "resolved"
         ELSE /\ dsettled = "rejected"
              /\ "errors" \in DOMAIN derr
              /\ {derr.errors[i] : i \in 1..Len(derr.errors)} = C9_Failed
              /\ Len(derr.errors) = Cardinality(C9_Failed)

\* A gzip-encoded download whose output passed the five checks.
C9_Witness ==
  /\ caller = "download"
  /\ dsettled = "resolved"
  /\ usesGunzip(result)
  /\ Received = <<2, 1>>
  /\ sink = <<1, 1>>

\* The problems of the response headers that the specification lists.
NotNumeric(str) == str # <<>> /\ \E i \in 1..Len(str) : ~IsDigit(str[i])
C10_Problems ==
  {m \in {"Content-Encoding is specified with invalid value",
          "Content-Length is mandatory but absent", "Transfer-Sha256 is mandatory but absent",
          "Content-Sha256 is mandatory but absent", "Transfer-Size is mandatory but absent",
          "Content-Size is mandatory but absent", "Content-Length is not an integer",
          "Transfer-Size is not an integer", "Content-Size is not an integer"} :
     \/ m = "Content-Encoding is specified with invalid value"
        /\ header(result, "content-encoding") \notin
             {<<>>, <<"g", "z", "i", "p">>, <<"i", "d", "e", "n", "t", "i", "t", "y">>}
     \/ m = "Content-Length is mandatory but absent"
        /\ header(result, "content-length") = <<>>
     \/ m = "Transfer-Sha256 is mandatory but absent"
        /\ header(result, "x-amz-meta-transfer-sha256") = <<>>
     \/ m = "Content-Sha256 is mandatory but absent"
        /\ header(result, "x-amz-meta-content-sha256") = <<>>
     \/ m = "Transfer-Size is mandatory but absent"
        /\ header(result, "x-amz-meta-transfer-length") = <<>>
     \/ m = "Content-Size is mandatory but absent"
        /\ header(result, "x-amz-meta-content-length") = <<>>
     \/ m = "Content-Length is not an integer"
        /\ NotNumeric(header(result, "content-length"))
     \/ m = "Transfer-Size is not an integer"
        /\ NotNumeric(header(result, "x-amz-meta-transfer-length"))
     \/ m = "Content-Size is not an integer"
        /\ NotNumeric(header(result, "x-amz-meta-content-length"))}

\* C10: once runDownload has read the headers of a response with an absent
\* header, a length header that is not numeric, or a content-encoding other
\* than gzip and identity, it has rejected with one error listing every such
\* problem, and no byte of the response has gone down the pipes.
C10_BatchedHeaderError ==
  (/\ caller = "download"
   /\ dpc \in {"piping", "ended", "finished", "stopped"}
   /\ IsResult(result)
   /\ C10_Problems # {})
  => /\ dsettled = "rejected"
     /\ "errors" \in DOMAIN derr
     /\ {derr.errors[i] : i \in 1..Len(derr.errors)} = C10_Problems
     /\ sink = <<>>
     /\ preDecompressionDigest.size = 0

\* runOnce has failed with a transport error.
TransportFailed == IsError(result) /\ result.error = "transport"

\* C11: if the Runner.run call of runDownload fails, for example on a transport
\* error, the promise runDownload returned eventually rejects with that error.
C11_RunFailureRejectsDownload ==
  (caller = "download" /\ dpc = "awaiting" /\ TransportFailed)
    ~> (dsettled = "rejected" /\ derr = result)

\* ----------------------------------------------------- transport errors ----
\* C12 as stated: when runOnce fails with a transport error on an attempt that
\* is not the last allowed one, run goes on to a further attempt instead of
\* failing the whole call.
C12_Original ==
  (caller = "none" /\ TransportFailed /\ current < maxRetries - 1) => rpc # "rejected"

\* C12 (amended): a transport error is not retried.  When runOnce fails with
\* one (runOnce rejects), on whatever attempt, run rejects with that error at
\* once, with no backoff sleep, and no further attempt is made.
C12_TransportErrorNotRetried ==
  [][/\ (/\ rpc = "inflight" /\ IsError(result') /\ result'.error = "transport"
         /\ rpc' \notin {"hung", "uncaught"}) =>
          /\ rpc' = "rejected"
          /\ calls' = calls /\ nsleeps' = nsleeps
     /\ (caller = "none" /\ rpc = "rejected") => (rpc' = "rejected" /\ calls' = calls)]_vars

\* A transport error on the first of three allowed attempts: run has rejected.
C12_Witness ==
  /\ caller = "none" /\ TransportFailed /\ rpc = "rejected"
  /\ body.shape = "factory"
  /\ maxRetries = 3 /\ current = 0 /\ calls = 1 /\ nsleeps = 0

\* C13: a transport error or a server hangup during an attempt makes that
\* runOnce call reject, for every body shape and both response modes: the call
\* neither stays unsettled nor resolves with a result.
C13_FailedAttemptRejects ==
  (caller = "none" /\ TransportFailed) => rpc = "rejected"

\* ------------------------------------------------------------ redirects ----
\* A step in which the request in flight is answered: last' is the response.
Answered == rpc = "inflight" /\ ~(IsError(result') /\ result'.error = "transport")

\* A step in which run follows a redirect: the call for the next hop starts.
Hop == rpc = "inflight" /\ currentRedirect' = currentRedirect + 1

\* C14: with followRedirect enabled, run issues a follow-up request only when
\* the response status is 301, 302 or 303, the request method is GET or HEAD and
\* the response carries a Location header; a 3xx response with another status,
\* to another method or without Location is itself returned as the result, and
\* no further request is made.
C14_FollowOnlySafeRedirects ==
  [][/\ Hop =>
          /\ followRedirect
          /\ last'.statusCode \in {301, 302, 303}
          /\ toUpperCase(req.method) \in {"GET", "HEAD"}
          /\ HasHeader(last'.headers, "location")
     /\ (/\ Answered /\ caller = "none" /\ followRedirect
         /\ last'.statusCode \in 300..399
         /\ \/ last'.statusCode \notin {301, 302, 303}
            \/ toUpperCase(req.method) \notin {"GET", "HEAD"}
            \/ ~HasHeader(last'.headers, "location")) =>
          /\ rpc' = "resolved"
          /\ result' = last'
          /\ calls' = calls
          /\ currentRedirect' = currentRedirect]_vars

\* A 302 with a Location answered to a HEAD request was followed: the request
\* of the first hop is in flight.
C14_Witness ==
  /\ caller = "none" /\ followRedirect
  /\ rpc = "inflight" /\ currentRedirect = 1 /\ calls = 2
  /\ last.statusCode = 302 /\ req.method = "HEAD"
  /\ req.url = last.headers["location"]

\* C15: for every maxRedirects >= 0, run follows at most maxRedirects hops for
\* one logical request, and when a redirect it would otherwise follow comes
\* back as the result, exactly maxRedirects hops were followed and the result
\* is that last response.
C15_AtMostMaxRedirectsHops ==
  caller = "none" =>
    /\ currentRedirect <= opts.maxRedirects
    /\ (/\ rpc = "resolved" /\ IsResult(result) /\ followRedirect
        /\ result.statusCode \in {301, 302, 303}
        /\ HasHeader(result.headers, "location")
        /\ req.method \in {"GET", "HEAD"}) =>
          /\ currentRedirect = opts.maxRedirects
          /\ result = last

\* C16: each followed redirect hop issues a request whose url is the Location
\* value and whose method and headers are those of the request before it, and
\* the hop starts a fresh attempt sequence: attempt counter 0, up to maxRetries
\* attempts, backoff exponents 0, 1, 2, ... from the start.
C16_HopPreservesAndResets ==
  /\ [][Hop => /\ req'.url = last'.headers["location"]
               /\ req'.method = req.method
               /\ req'.headers = req.headers
               /\ body' = body
               /\ calls' = calls + 1
               /\ current' = 0
               /\ sleeps' = <<>>]_vars
  /\ [](caller = "none" =>
          /\ sleeps = [i \in 1..Len(sleeps) |-> i - 1]
          /\ Len(sleeps) <= maxRetries - 1 \/ sleeps = <<>>
          /\ (rpc = "sleeping" => current = Len(sleeps) - 1)
          /\ (rpc = "inflight" /\ Replayable(body) => current = Len(sleeps)))

\* The first hop of a request used its whole budget of three attempts, with
\* backoff exponents 0 and 1, after the original request had slept once.
C16_Witness ==
  /\ caller = "none" /\ currentRedirect = 1
  /\ maxRetries = 3 /\ calls = 5 /\ current = 2
  /\ sleeps = <<0, 1>> /\ nsleeps = 3
  /\ rpc = "resolved" /\ result.statusCode = 503
  /\ req.url = <<"https", "c">> /\ req.method = "GET"

\* ------------------------------------------------------------------ C17
\* A descriptor of multipart preparation, and the sum of the sizes of parts.
MultipartDescriptor == ppc = "resolved" /\ "parts" \in DOMAIN presult
RECURSIVE SumSizes(_, _, _)
SumSizes(ps, lo, hi) ==
  IF lo > hi THEN 0
  ELSE IF lo = hi THEN partAt(ps, lo).size
  ELSE LET mid == (lo + hi) \div 2
       IN SumSizes(ps, lo, mid) + SumSizes(ps, mid + 1, hi)

\* C17: multipart preparation of a file of s bytes with the part size p gives
\* ceil(s/p) parts in order, part i (from 0) starting at i*p; every part but
\* the last has exactly p bytes, the last has more than 0 and at most p; the
\* ranges of the parts tile [0, s), and the sizes add up to the transfer size.
C17_PartsTileTheFile ==
  MultipartDescriptor =>
    LET ps == presult.parts
        s == filestats.size
        p == partsize
    IN /\ p > 0
       /\ length(ps) = (s + p - 1) \div p
       /\ \A i \in 1..length(ps) :
            /\ partAt(ps, i).start = (i - 1) * p
            /\ i < length(ps) => partAt(ps, i).size = p
            /\ i = length(ps) => (partAt(ps, i).size > 0 /\ partAt(ps, i).size <= p)
            /\ i < length(ps) => partAt(ps, i).start + partAt(ps, i).size = partAt(ps, i + 1).start
            /\ i = length(ps) => partAt(ps, i).start + partAt(ps, i).size = s
       /\ SumSizes(ps, 1, length(ps)) = presult.transferSize
       /\ presult.transferSize = s

\* A file of 4 is prepared with the part size 3: two parts, of 3 and of 1.
C17_Witness ==
  /\ MultipartDescriptor
  /\ partsize = 3 /\ filestats.size = 4
  /\ length(presult.parts) = 2
  /\ partAt(presult.parts, 2).start = 3 /\ partAt(presult.parts, 2).size = 1

\* ------------------------------------------------------------------ C18
\* C18: multipart preparation rejects whenever ceil(fileSize / partSize) is
\* less than 2, also when forceMP asked for it: no descriptor of multipart
\* preparation is of a file that fits in one part.
C18_FewerThanTwoPartsRejected ==
  MultipartDescriptor => mathCeil(filestats.size, partsize) >= 2

\* ------------------------------------------------------------------ C19
WithinLimits(p) == p >= 5 * MB /\ p <= 5 * GB

\* C19: the part size of multipart preparation is always within 5 MiB and
\* 5 GiB: prepareUpload rejects a partsize of the caller outside these limits
\* before it reads the file, and no Client is made with a default partsize
\* outside them.
C19_PartsizeWithinLimits ==
  /\ (Given(popts, "partsize") /\ ~WithinLimits(popts.partsize)) =>
       (ppc = "rejected" /\ size = 0 /\ pparts = <<>>)
  /\ (ppc \in {"multi", "uncaught"} \/ MultipartDescriptor) => WithinLimits(partsize)
  /\ client.state = "constructed" => WithinLimits(client.partsize)

\* ------------------------------------------------------------------ C20
\* C20: a descriptor prepareUpload returns has at most 10,000 parts: a file
\* that would need more of them is rejected.
C20_AtMostMaxChunksParts ==
  MultipartDescriptor => length(presult.parts) <= MAX_S3_CHUNKS

\* ------------------------------------------------------------------ C21
\* The file is no more what the stat before the digest pass saw.
FileChanged == filestats # NoResult /\ transferStat # filestats

\* C21: when the size, the modification time or the inode of the file differs
\* between the stat before the digest pass and the stat after it, single-part
\* and multipart preparation reject: they return no descriptor, and they are
\* not left unsettled by an error that nothing catches.
C21_ChangedFileRejects ==
  FileChanged => ppc \notin {"resolved", "uncaught", "unhandled"}

\* ------------------------------------------------------------------ C22
\* prepareUpload is called; the mode it has chosen; it has refused the options
\* or the file before any digest pass.
Called == ppc \in {"idle", "compressed"} /\ ppc' \notin {"idle", "compressing", "compressed"}
ChoseMulti ==
  \/ ppc' = "multi"
  \/ ppc' = "rejected" /\ presult'.error = "Multipart upload must have at least 2 parts"
ChoseSingle == ppc' = "single"
Refused(why) ==
  ppc' = "rejected" /\ presult'.error = why /\ size' = 0 /\ pparts' = <<>>
PartsizeAllowed == Given(popts', "partsize") => popts'.partsize <= 5 * GB
ByMultisize == ~Flag(popts', "forceMP") /\ ~Flag(popts', "forceSP")

Descriptor == ppc = "resolved"
Uncompressed == compression(popts) = "identity"

\* C23 as it is stated: a descriptor prepared without compression has the
\* contentEncoding 'identity', and its transfer digest and size are its digest
\* and size.
C23_Original ==
  (Descriptor /\ Uncompressed) =>
    /\ "contentEncoding" \in DOMAIN presult
    /\ presult.contentEncoding = "identity"
    /\ presult.transferSha256 = presult.sha256
    /\ presult.transferSize = presult.size

\* C23: a descriptor prepared without compression has no contentEncoding, and
\* its transfer digest and size are its digest and size.
C23_IdentityDescriptor ==
  (Descriptor /\ Uncompressed) =>
    /\ "contentEncoding" \notin DOMAIN presult
    /\ presult.transferSha256 = presult.sha256
    /\ presult.transferSize = presult.size
    /\ presult.size = fstat.size

\* A file of size 1 is prepared with the compression unspecified.
C23_Witness ==
  /\ Descriptor
  /\ ~Given(popts, "compression")
  /\ presult.size = 1 /\ presult.transferSize = 1

\* ------------------------------------------------------------------ C24
\* C24: a descriptor prepared with the compression 'gzip' has the digest and
\* the size of the file before compression as sha256 and size, those of the
\* compressed output as transferSha256 and transferSize, the contentEncoding
\* 'gzip' and the name of the output file as filename; its parts, when it has
\* parts, are parts of the output file, and their sizes add up to transferSize.
C24_GzipDescriptor ==
  (Descriptor /\ compression(popts) = "gzip") =>
    /\ presult.sha256 = digestOf(fstat, 0, fstat.size)
    /\ presult.size = fstat.size
    /\ presult.transferSha256 = digestOf(gzipped(fstat), 0, gzipSize(fstat.size))
    /\ presult.transferSize = gzipSize(fstat.size)
    /\ presult.contentEncoding = "gzip"
    /\ presult.filename = "z" /\ presult.filename # popts.filename
    /\ "parts" \in DOMAIN presult =>
         /\ SumSizes(presult.parts, 1, length(presult.parts)) = presult.transferSize
         /\ \A i \in 1..length(presult.parts) :
              LET e == partAt(presult.parts, i)
              IN e.sha256 = digestOf(gzipped(fstat), e.start, e.size)

\* A file of size 4 is compressed to size 3 and prepared in 3 parts of size 1.
C24_Witness ==
  /\ Descriptor /\ compression(popts) = "gzip"
  /\ "parts" \in DOMAIN presult /\ length(presult.parts) = 3
  /\ presult.size = 4 /\ presult.transferSize = 3

\* ------------------------------------------------------------------ C25
\* The fields of a descriptor that C25 names.
Digests(d) ==
  [sha256 |-> d.sha256, size |-> d.size,
   transferSha256 |-> d.transferSha256, transferSize |-> d.transferSize,
   parts |-> IF "parts" \in DOMAIN d THEN d.parts ELSE <<>>]

Verbs == {"GET", "HEAD", "PUT", "POST", "PATCH", "DELETE", "OPTIONS", "TRACE", "CONNECT"}
UpperCase(m) == IF m = "Get" THEN "GET" ELSE toUpperCase(m)
AllStrings(h) == \A k \in DOMAIN h : h[k].typeof = "string"
WellFormed(r) ==
  /\ "url" \in DOMAIN r /\ UrlMatches(r.url)
  /\ "method" \in DOMAIN r /\ UpperCase(r.method) \in Verbs
  /\ "headers" \in DOMAIN r /\ AllStrings(r.headers)

\* C26: validate returns the object it was given, unchanged, exactly when the
\* url matches ^https?:, the method is one of the nine verbs compared without
\* regard to case, and the headers are there with every value a string; in
\* every other case it throws.
C26_ValidateExactly ==
  rpc = "validated" =>
    IF WellFormed(req) THEN "returned" \in DOMAIN result /\ result.returned = req
    ELSE IsError(result)

\* ------------------------------------------------------------------ C27
\* runOnce is called for a valid request of the method GET or HEAD, in upper or
\* in lower case.
RunOnceGetOrHead ==
  /\ calls' = calls + 1
  /\ validate(req')
  /\ toUpperCase(req'.method) \in {"GET", "HEAD"}

\* C27: runOnce for GET or HEAD with a body that is not empty (a string, a
\* Buffer, a raw stream, a factory) throws before a request is made and before
\* the factory is called; with no body or with the empty string it makes the
\* request.
C27_NoBodyWithGetOrHead ==
  [][RunOnceGetOrHead =>
       IF Truthy(body')
         THEN /\ rpc' = "rejected" /\ IsError(result')
              /\ factoryCalls' = factoryCalls /\ sending' = <<>>
         ELSE rpc' = "inflight"]_vars

\* runOnce has thrown for the method 'get' and a factory, which was not called.
C27_Witness ==
  /\ caller = "none" /\ rpc = "rejected"
  /\ req.method = "get" /\ validate(req)
  /\ body.shape = "factory" /\ factoryCalls = 0 /\ calls = 1

\* ------------------------------------------------------------------ C28
\* C28: a buffered Run Result carries responseHash and responseSize, the
\* SHA-256 and the length of its body.
C28_BufferedResultHasDigest ==
  (caller = "none" /\ rpc = "resolved" /\ IsResult(result) /\ "body" \in DOMAIN result) =>
    /\ "responseHash" \in DOMAIN result
    /\ "responseSize" \in DOMAIN result
    /\ result.responseSize = Len(result.body)
    /\ result.responseHash = sha256(result.body)

\* ------------------------------------------------------------------ C29
\* The Run Result r is right for the mode: bodyStream and no body when
\* streamingOutput is set, body and no bodyStream otherwise.
RightForMode(r) ==
  IF streamingOutput
    THEN "bodyStream" \in DOMAIN r /\ "body" \notin DOMAIN r
    ELSE "body" \in DOMAIN r /\ "bodyStream" \notin DOMAIN r

\* C29: a result of runOnce or of run has bodyStream and no body when
\* streamingOutput is set, body and no bodyStream otherwise: never both, never
\* neither.
C29_BodyOrBodyStream ==
  /\ IsResult(last) => RightForMode(last)
  /\ (rpc = "resolved" /\ IsResult(result)) => RightForMode(result)

\* A run with streamingOutput has resolved with a bodyStream.
C29_Witness ==
  /\ caller = "none" /\ rpc = "resolved" /\ streamingOutput
  /\ IsResult(result) /\ "bodyStream" \in DOMAIN result

\* The part number a request is signed for: the digits after partNumber= in
\* the query of its url.
SignedFor(rq) ==
  LET i == CHOOSE j \in 1..Len(rq.url) : rq.url[j] = "partNumber="
  IN parseInt(SubSeq(rq.url, i + 1, Len(rq.url)))

\* The bytes of part i of the descriptor.
BytesOfPart(i) ==
  SubSeq(file, descriptor.parts[i].start + 1,
         descriptor.parts[i].start + descriptor.parts[i].size)

\* generateMultipartRequest has returned: one request per part, in the order
\* of the parts, request i signed for part number i and carrying the digest and
\* the length of part i.
OneRequestPerPart ==
  cpc \in {"generated", "completed"} =>
    /\ Len(requests) = Len(descriptor.parts)
    /\ \A i \in 1..Len(requests) :
         /\ SignedFor(requests[i]) = i
         /\ requests[i].headers["x-amz-content-sha256"] = digestHex(BytesOfPart(i))
         /\ requests[i].headers["content-length"] = descriptor.parts[i].size * Block

\* runUpload records an etag: it is the etag of the response to the request
\* signed for that position, which carried the bytes of the part at that position.
CollectedInOrder ==
  etags' # etags =>
    LET i == Len(etags')
    IN /\ etags' = Append(etags, etagOf(result))
       /\ req = requests[i]
       /\ SignedFor(req) = i
       /\ uploaded'[i] = BytesOfPart(i)

\* The body of the completion: one Part per part, in order, the Part at
\* position i with PartNumber i and the etag runUpload recorded for part i.
CommittedByPosition ==
  cpc = "completed" =>
    /\ Len(requestBody) = Len(descriptor.parts)
    /\ \A i \in 1..Len(requestBody) :
         /\ parseInt(requestBody[i].PartNumber) = i
         /\ requestBody[i].ETag = etags[i]
         /\ requestBody[i].ETag = etagOf(responses[i])
         /\ uploaded[i] = BytesOfPart(i)

\* C30: part numbers follow list position through the whole protocol:
\* generateMultipartRequest returns one request per part, in parts order, the
\* request at (0-based) index i signed for partNumber i+1;
\* __generateCompleteUploadBody puts etags[i] under PartNumber i+1; and the etag
\* runUpload collects for parts[i] is the one committed as remote part i+1.
C30_PartNumbersFollowPosition ==
  /\ [](OneRequestPerPart /\ CommittedByPosition)
  /\ [][CollectedInOrder]_vars

\* A transfer of three parts is completed, with etags that differ from one
\* part to the next.
C30_Witness ==
  /\ cpc = "completed"
  /\ Len(requestBody) >= 3
  /\ requestBody[1].ETag # requestBody[2].ETag
  /\ requestBody[2].ETag # requestBody[3].ETag

\* generateMultipartRequest has been called with a parts list, and what it did.
AskedForParts == caller = "controller" /\ cpc # "idle"
Accepted == cpc = "generated"
NothingSigned == requests = <<>>

\* The conditions for a parts list: 1 to 10,000 parts, no size above 5 GiB,
\* no part but the last below 5 MiB, every sha256 64 hex characters other than
\* the digest of the empty string.
Acceptable(ps) ==
  /\ Len(ps) >= 1 /\ Len(ps) <= 10000
  /\ \A i \in 1..Len(ps) :
       /\ ps[i].size <= 5 * GB
       /\ i < Len(ps) => ps[i].size >= 5 * MB
       /\ Len(ps[i].sha256) = 64
       /\ \A j \in 1..Len(ps[i].sha256) : ps[i].sha256[j] \in HexChars
       /\ ps[i].sha256 # emptySha256

\* The conditions the schema adds: no negative size, and a start, where one is
\* given, from 0 to 5 TiB - 5 GiB.
WithinSchema(ps) ==
  \A i \in 1..Len(ps) :
    /\ ps[i].size >= 0
    /\ "start" \in DOMAIN ps[i] => (ps[i].start >= 0 /\ ps[i].start <= MaxStart)

NextAttempt == calls' = calls + 1 /\ rpc # "idle" /\ currentRedirect' = currentRedirect

\* A step in which run starts to sleep.
FallsAsleep == rpc' = "sleeping" /\ rpc # "sleeping"

\* A step in which an attempt resolves with a Run Result.
AttemptResolves == rpc = "inflight" /\ last' # last /\ currentRedirect' = currentRedirect

\* C32: within one hop of Runner.run exactly one backoff sleep lies between
\* two consecutive attempts, and none follows the final attempt or a response
\* that is not a 5xx; with retryDelayJitter = 0 the sleep after attempt n
\* (0-indexed) lasts exactly 2^n * retryDelayFactor; attempt n+1 starts only
\* when attempt n has resolved and that sleep has elapsed.
C32_OneBackoffBetweenAttempts ==
  /\ [][NextAttempt =>
          /\ rpc = "sleeping"
          /\ current' = current + 1
          /\ sleeps = [i \in 1..current' |-> i - 1]
          /\ IsResult(last) /\ Is5xx(last)]_vars
  /\ [][FallsAsleep =>
          /\ rpc = "inflight"
          /\ IsResult(last') /\ Is5xx(last')
          /\ current < maxRetries - 1
          /\ sleeps' = Append(sleeps, current)
          /\ Len(delays') = Len(sleeps')]_vars
  /\ [][AttemptResolves /\ (~Is5xx(last') \/ current >= maxRetries - 1) =>
          rpc' # "sleeping" /\ sleeps' = sleeps /\ delays' = delays]_vars
  /\ [](caller = "none" =>
          /\ Len(delays) = Len(sleeps)
          /\ retryDelayJitter = 0 =>
               \A i \in 1..Len(delays) : delays[i] = pow(2, i - 1) * retryDelayFactor
          /\ \A i \in 1..Len(delays) :
               /\ 100 * delays[i] >= pow(2, i - 1) * retryDelayFactor * (100 - retryDelayJitter) - 100
               /\ 100 * delays[i] <= pow(2, i - 1) * retryDelayFactor * (100 + retryDelayJitter))

\* A Runner without jitter and with a retryDelayFactor of its own sleeps for
\* the fourth time in a hop, after the sleeps of 1, 2 and 4 times the factor.
C32_Witness ==
  /\ caller = "none" /\ rpc = "sleeping"
  /\ retryDelayJitter = 0 /\ retryDelayFactor = 250
  /\ delays = <<250, 500, 1000, 2000>>

\* C33: a Runner.run call makes at most maxRetries attempts per hop and at
\* most maxRedirects + 1 hops, hence at most maxRetries * (maxRedirects + 1)
\* HTTP requests for one logical request.
C33_AtMostRetriesTimesHops ==
  caller = "none" =>
    /\ currentRedirect + 1 <= opts.maxRedirects + 1
    /\ calls <= maxRetries * (opts.maxRedirects + 1)

\* The same bound for the calls that name a maxRedirects of 1 or more and do
\* not send a raw stream through a Runner without retries.
C33_BoundWithRedirectLimit ==
  (caller = "none" /\ opts.maxRedirects >= 1 /\ ~(IsRawStream(body) /\ maxRetries = 0)) =>
    /\ currentRedirect + 1 <= opts.maxRedirects + 1
    /\ calls <= maxRetries * (opts.maxRedirects + 1)

\* A direct Runner.run call whose body is a factory function.
FactoryBody == caller = "none" /\ body.shape = "factory"

\* The retry budget of a call with a factory function: never more than
\* maxRetries attempts, and all of them when every answer is a 5xx.
FullBudget ==
  /\ calls <= maxRetries
  /\ (rpc = "resolved" /\ IsResult(result) /\ Is5xx(result)) => calls = maxRetries

\* The statement as given: as many streams as runOnce invocations.
C34_Original ==
  FactoryBody => (factoryCalls = calls /\ FullBudget)

\* C34: when the body is a factory function, the factory is invoked exactly
\* once per attempt, at the start of that attempt: the number of streams created
\* equals the number of runOnce invocations that get past runOnce's checks of
\* the request (an invocation that throws for an invalid request or for a body
\* with GET or HEAD creates none), no stream is shared between two attempts,
\* and the full retry budget of maxRetries attempts remains available.
C34_FactoryOncePerAttempt ==
  FactoryBody =>
    /\ factoryCalls = (IF runOnceThrows(req, body) THEN 0 ELSE calls)
    /\ runOnceThrows(req, body) => calls <= 1
    /\ FullBudget

\* A factory function was invoked five times for the five attempts of a Runner
\* with the default maxRetries, all answered with a 503.
C34_Witness ==
  /\ FactoryBody /\ maxRetries = DefaultMaxRetries
  /\ rpc = "resolved" /\ IsResult(result) /\ result.statusCode = 503
  /\ calls = DefaultMaxRetries /\ factoryCalls = DefaultMaxRetries

\* C35: DigestStream forwards every chunk unchanged and in order; hash and
\* size are not there before the stream has flushed (so never, if the input
\* never ends), and after the flush size is the number of bytes forwarded and
\* hash is the reference digest of all the forwarded chunks put end to end.
C35_DigestStreamForwardsAndDigests ==
  /\ [][(caller = "digest" /\ dsin # <<>>) =>
          /\ dsout' = Append(dsout, Head(dsin))
          /\ dsin' = Tail(dsin)]_vars
  /\ [](caller = "digest" =>
          /\ ~ds.flushed => (hashOfDigest(ds) = <<>> /\ sizeOfDigest(ds) = NaN)
          /\ ds.flushed =>
               /\ dsin = <<>>
               /\ sizeOfDigest(ds) = Len(Concat(dsout))
               /\ hashOfDigest(ds) = sha256(Concat(dsout)))

\* A DigestStream has flushed after two chunks, an empty one and one of two
\* different bytes.
C35_Witness ==
  /\ caller = "digest" /\ ds.flushed
  /\ dsout = <<<<>>, <<2, 1>>>>

\* A direct Runner.run call with a request runOnce accepts has resolved.
ResolvedValidRun == caller = "none" /\ ~runOnceThrows(req, body) /\ rpc = "resolved"

\* C36: for every maxRetries the constructor accepts, Runner.run with a valid
\* request performs at least one attempt and resolves with a Run Result, never
\* with undefined and never without a request sent.
C36_AtLeastOneAttempt ==
  ResolvedValidRun => (calls >= 1 /\ IsResult(result))

\* The same for the Runners whose maxRetries is 1 or more.
C36_WithOneRetryOrMore ==
  (ResolvedValidRun /\ maxRetries >= 1) => (calls >= 1 /\ IsResult(result))


\* C37: Client.runDownload never resolves when the final response of the run
\* has a status outside 200..299, whatever its headers and body are.
Is2xx(status) == status >= 200 /\ status < 300
C37_NeverResolvesOnNon2xx ==
  (caller = "download" /\ dsettled = "resolved") => Is2xx(result.statusCode)

\* The same for the statuses the code does turn into a rejection: a response
\* without the metadata headers, as a bare 5xx is, never resolves.
C37_BareErrorNeverResolves ==
  (caller = "download" /\ dsettled = "resolved") => headerErrors(result) = <<>>


\* C38: two calls of run on one Runner, concurrent or one after the other, have
\* attempt counters of their own.  No step changes the Runner's maxRetries; a
\* call starts at attempt 0 unless its own body is a raw stream, whatever the
\* other call is doing; a step of one call leaves the other call's counter and
\* attempts alone; and a call with a replayable body that ends on a 5xx has
\* made all maxRetries attempts, while a raw stream makes at most one.
StartsAt(b) == IF b.shape = "stream" THEN maxRetries - 1 ELSE 0
FirstCallBegins == rpc = "idle" /\ rpc' # "idle"
OtherCallBegins == other.pc = "idle" /\ other'.pc # "idle"
IndependentSteps ==
  /\ maxRetries' = maxRetries
  /\ FirstCallBegins => current' = StartsAt(body')
  /\ OtherCallBegins => other'.current = StartsAt(other'.body)
  /\ other' # other => UNCHANGED <<rpc, current, calls, sleeps, result>>
  /\ <<rpc, current, calls>>' # <<rpc, current, calls>> => other' = other
BudgetOfEachCall ==
  /\ (rpc = "resolved" /\ body.shape # "stream" /\ "statusCode" \in DOMAIN result
        /\ result.statusCode >= 500) => calls = maxRetries
  /\ (other.pc = "resolved" /\ other.body.shape # "stream" /\ other.statusCode >= 500)
       => other.calls = maxRetries
  /\ body.shape = "stream" => calls <= 1
  /\ other.body.shape = "stream" => other.calls <= 1
C38_IndependentAttemptCounters == []BudgetOfEachCall /\ [][IndependentSteps]_vars

\* A raw stream is being sent by the first call, capped to its one attempt,
\* while the second call sleeps before its third attempt; and the other way round.
C38_Witness ==
  /\ rpc = "inflight" /\ body.shape = "stream" /\ current = maxRetries - 1
  /\ other.pc = "sleeping" /\ other.current = 1 /\ other.calls = 2
C38_WitnessOtherRaw ==
  /\ other.pc = "inflight" /\ other.body.shape = "stream"
  /\ rpc = "resolved" /\ body.shape = "string" /\ calls = maxRetries /\ maxRetries = 3


\* C39: every prepareUpload call settles.  Once the call is made its promise is
\* in the end resolved or rejected; in particular a file whose bytes hashed
\* differ from the first stat's size, or a part read with a wrong size, leads
\* to a rejection and not to a promise that stays pending.
PrepareCalled == ppc \notin {"idle", "resolved", "rejected"}
PrepareSettled == ppc \in {"resolved", "rejected"}
C39_PrepareUploadSettles == PrepareCalled ~> PrepareSettled

\* The calls that do not settle are those whose 'end' handler threw: every
\* call settles or reaches one of the two throws that no promise receives.
C39_SettlesOrThrowsInHandler ==
  PrepareCalled ~> (PrepareSettled \/ ppc \in {"uncaught", "unhandled"})


\* C40: following a redirect does not depend on the letter case of the method.
\* When followRedirect is on and a request whose method is GET or HEAD in any
\* letter case is answered with a 301, 302 or 303 that has a Location header,
\* with a redirect left to follow, run goes on with a request to that location.
RunOnceResolves ==
  /\ rpc = "inflight"
  /\ ~("error" \in DOMAIN result' /\ result'.error = "transport")
RedirectToFollow ==
  /\ followRedirect
  /\ last'.statusCode \in {301, 302, 303}
  /\ HasHeader(last'.headers, "location")
  /\ currentRedirect < maxRedirects
IsFollowed ==
  /\ currentRedirect' = currentRedirect + 1
  /\ req' = [req EXCEPT !.url = last'.headers["location"]]
C40_RedirectWhateverTheCase ==
  [][(RunOnceResolves /\ RedirectToFollow /\ toUpperCase(req.method) \in {"GET", "HEAD"})
       => IsFollowed]_vars

\* What the code does: the same, for the methods spelled 'GET' and 'HEAD'.
C40_RedirectForUpperCase ==
  [][(RunOnceResolves /\ RedirectToFollow /\ req.method \in {"GET", "HEAD"})
       => IsFollowed]_vars

====
